---- MODULE Spec2Model ----
(***************************************************************************)
(* nanoslurm: job status resolution, state normalisation and the polling   *)
(* Job handle.  Two implementations of the Job handle live in the          *)
(* repository: nanoslurm/job.py (built on the adapters of _slurm.py) and   *)
(* nanoslurm/backend.py (self-contained).  Both are modelled; the variable *)
(* impl says which module the handle comes from.                           *)
(*                                                                         *)
(* A Python string is a sequence of symbols.  A symbol is one of the       *)
(* characters the code treats specially (space, newline, '+', '(', '*',    *)
(* '|') or a word: a run of ordinary characters.  Two words are never      *)
(* adjacent, so a sequence stands for exactly one Python string.           *)
(***************************************************************************)
EXTENDS Integers, Sequences, FiniteSets, TLC

\* ------------------------------------------------------------------------
\* Bounds

\* longest raw string handed to the normaliser
MaxStrLen == 3

\* largest value of the wall clock (seconds since wait() started)
MaxTime == 4

\* longest time one status query takes
MaxQueryTime == 1

\* most lines in a generated tool output
MaxTableLines == 2

\* most lines in a generated list of completion times
MaxStampLines == 3

\* largest count asked of recent_completions
MaxCount == 2

\* ------------------------------------------------------------------------
\* Strings

SP == " "

NL == "\n"

Whitespace == {SP, NL}

Specials == {SP, NL, "+", "(", "*", "|"}

\* the least member of a set of indices, or else when the set is empty
MinOf(indices, else) ==
  IF indices = {} THEN else ELSE CHOOSE i \in indices : \A j \in indices : i <= j

\* the greatest member of a set of indices, or else when the set is empty
MaxOf(indices, else) ==
  IF indices = {} THEN else ELSE CHOOSE i \in indices : \A j \in indices : i >= j

\* index of the first symbol of s that is in chars, Len(s) + 1 if there is none
FirstIn(s, chars) == MinOf({i \in 1..Len(s) : s[i] \in chars}, Len(s) + 1)

\* str.lstrip(): drop leading whitespace
LStrip(s) == SubSeq(s, MinOf({i \in 1..Len(s) : s[i] \notin Whitespace}, Len(s) + 1), Len(s))

\* str.rstrip(chars): drop every trailing symbol that is in chars
RStripSet(s, chars) == SubSeq(s, 1, MaxOf({i \in 1..Len(s) : s[i] \notin chars}, 0))

\* str.strip()
Strip(s) == RStripSet(LStrip(s), Whitespace)

\* s.split(c, 1)[0]: the part of s before the first symbol in chars
Before(s, chars) == SubSeq(s, 1, FirstIn(s, chars) - 1)

\* the part of s after the first symbol in chars (<<>> if there is none)
After(s, chars) == SubSeq(s, FirstIn(s, chars) + 1, Len(s))

HasAny(s, chars) == \E i \in 1..Len(s) : s[i] \in chars

\* the members of a set of indices in ascending order
Ascending(indices) ==
  [k \in 1..Cardinality(indices) |->
     CHOOSE i \in indices : Cardinality({j \in indices : j < i}) = k - 1]

\* the positions of sep in s, with 0 in front and Len(s) + 1 behind, ascending
Cuts(s, sep) == Ascending({0, Len(s) + 1} \cup {i \in 1..Len(s) : s[i] = sep})

\* the parts of s between consecutive cuts
Pieces(s, cut) == [k \in 1..(Len(cut) - 1) |-> SubSeq(s, cut[k] + 1, cut[k + 1] - 1)]

\* str.split(sep): split at every sep, empty parts kept; "".split(sep) = [""]
SplitOn(s, sep) == Pieces(s, Cuts(s, sep))

\* the positions where a run of non-whitespace symbols begins
WordStarts(s) ==
  {i \in 1..Len(s) : s[i] \notin Whitespace /\ (i = 1 \/ s[i - 1] \in Whitespace)}

\* the runs of non-whitespace symbols that begin at the given positions
WordsAt(s, start) ==
  [k \in 1..Len(start) |-> Before(SubSeq(s, start[k], Len(s)), Whitespace)]

\* str.split(): split at runs of whitespace, no empty parts
SplitWS(s) == WordsAt(s, Ascending(WordStarts(s)))

\* a final newline opens no line
DropFinalEmpty(parts) ==
  IF parts[Len(parts)] = <<>> THEN SubSeq(parts, 1, Len(parts) - 1) ELSE parts

\* str.splitlines(): lines without their newline
SplitLines(s) == DropFinalEmpty(SplitOn(s, NL))

\* the parts ls written one after the other, the symbol end after each
JoinWith(ls, end) ==
  LET acc[i \in 0..Len(ls)] == IF i = 0 THEN <<>> ELSE acc[i - 1] \o ls[i] \o <<end>>
  IN acc[Len(ls)]

\* the text made of the lines ls, each followed by a newline
JoinLines(ls) == JoinWith(ls, NL)

\* the same text, without the final newline when fin is false
Flatten(ls, fin) ==
  IF fin \/ Len(ls) = 0 THEN JoinLines(ls)
  ELSE SubSeq(JoinLines(ls), 1, Len(JoinLines(ls)) - 1)

\* a result of a Python call: a value, or the exception it raised
Ok(v) == [exc |-> "none", val |-> v]

Raised(e) == [exc |-> e, val |-> <<>>]

\* the decimal digits, each a symbol of its own
DigitSeq == <<"0", "1", "2", "3", "4", "5", "6", "7", "8", "9">>

Digits == {DigitSeq[i] : i \in 1..10}

DigitVal(c) == (CHOOSE i \in 1..10 : DigitSeq[i] = c) - 1

\* the number a run of digits writes
Decimal(ds) ==
  LET value[i \in 0..Len(ds)] == IF i = 0 THEN 0 ELSE 10 * value[i - 1] + DigitVal(ds[i])
  IN value[Len(ds)]

\* the sum of a sequence of numbers
SumSeq(nums) ==
  LET total[i \in 0..Len(nums)] == IF i = 0 THEN 0 ELSE total[i - 1] + nums[i]
  IN total[Len(nums)]

\* digits, with single underscores allowed between them
is_number(t) ==
  /\ t # <<>>
  /\ \A i \in 1..Len(t) : t[i] \in Digits \cup {"_"}
  /\ \A i \in 1..Len(t) : t[i] = "_" => i > 1 /\ i < Len(t) /\ t[i + 1] # "_"

\* the number written after an optional sign, or a ValueError
signed_int(t) ==
  IF t # <<>> /\ t[1] \in {"+", "-"}
  THEN IF is_number(Tail(t))
       THEN Ok((IF t[1] = "-" THEN -1 ELSE 1)
                 * Decimal(SelectSeq(Tail(t), LAMBDA c : c # "_")))
       ELSE Raised("ValueError")
  ELSE IF is_number(t) THEN Ok(Decimal(SelectSeq(t, LAMBDA c : c # "_")))
       ELSE Raised("ValueError")

\* int(token): blanks around the number are allowed
int_of(token) == signed_int(Strip(token))

\* ------------------------------------------------------------------------
\* _slurm.py: the state normaliser

\* words[0]: an IndexError on an empty list
Index0(words) == IF words = <<>> THEN Raised("IndexError") ELSE Ok(words[1])

\* state.strip().split()[0] if state else "": an IndexError when state is
\* non-empty and holds nothing but whitespace
first_word(state) == IF state = <<>> THEN Ok(<<>>) ELSE Index0(SplitWS(Strip(state)))

\* token.split("+", 1)[0], then .split("(", 1)[0], then .rstrip("*")
clean_token(w) ==
  IF w.exc # "none" THEN w
  ELSE Ok(RStripSet(Before(Before(w.val, {"+"}), {"("}), {"*"}))

normalize_state(state) == clean_token(first_word(state))

\* ------------------------------------------------------------------------
\* _slurm.py: table parser and the two adapters used by status resolution

\* stands for sep=None (split at whitespace)
NoSep == "None"

\* the tokens of one output line
line_parts(line, sep) == IF sep = NoSep THEN SplitWS(line) ELSE SplitOn(line, sep)

\* lines with more tokens than keys kept, as zip() alone would
table_rows_mut(lines, nkeys, sep) ==
  SelectSeq([i \in 1..Len(lines) |-> line_parts(lines[i], sep)], LAMBDA p : Len(p) >= nkeys)

\* one row (the sequence of its tokens, in key order) per line whose token
\* count equals the number of keys
table_rows(lines, nkeys, sep) ==
  SelectSeq([i \in 1..Len(lines) |-> line_parts(lines[i], sep)], LAMBDA p : Len(p) = nkeys)

\* _table: the rows of the output's lines
_table(out, nkeys, sep) == table_rows(SplitLines(out), nkeys, sep)

\* an external command as far as the handle is concerned: the tool and the
\* job id on its command line
Cmd(tool, id) == [tool |-> tool, id |-> id]

\* squeue(fields=["state"], jobs=[id]) with the default check=True
squeue(avail, out, id) ==
  IF ~avail THEN [exc |-> "SlurmUnavailableError", rows |-> <<>>, cmds |-> <<>>]
  ELSE [exc |-> "none", rows |-> _table(out, 1, "|"), cmds |-> <<Cmd("squeue", id)>>]

\* sacct(fields=["state"], jobs=[id], allocations=True) with check=True
sacct(avail, out, id) ==
  IF ~avail THEN [exc |-> "SlurmUnavailableError", rows |-> <<>>, cmds |-> <<>>]
  ELSE [exc |-> "none", rows |-> _table(out, 1, "|"), cmds |-> <<Cmd("sacct", id)>>]

\* ------------------------------------------------------------------------
\* job.py: status resolution.  None and "" are both falsy and only tested
\* for truth, so both are <<>> here.

\* the first of the results that is an exception or a non-empty token
first_truthy(n) ==
  IF \A i \in 1..Len(n) : n[i].exc = "none" /\ n[i].val = <<>> THEN Ok(<<>>)
  ELSE n[MinOf({i \in 1..Len(n) : n[i].exc # "none" \/ n[i].val # <<>>}, Len(n))]

\* for r in rows: token = normalize_state(r["state"]); if token: return token
first_token(rows) == first_truthy([i \in 1..Len(rows) |-> normalize_state(rows[i][1])])

\* a token result together with the commands executed to get it
with_cmds(t, done) == [exc |-> t.exc, val |-> t.val, cmds |-> done]

\* the first non-empty token of sacct's rows; SlurmUnavailableError is passed over
sacct_token(h) == IF h.exc = "none" THEN first_token(h.rows) ELSE Ok(<<>>)

\* the sacct block of _status once sacct has answered with h
sacct_block(h, done) == with_cmds(sacct_token(h), done \o h.cmds)

\* the sacct half of _status
status_from_sacct(id, a_sa, sa_out, done) ==
  IF ~a_sa THEN [exc |-> "none", val |-> <<>>, cmds |-> done]
  ELSE sacct_block(sacct(a_sa, sa_out, id), done)

\* rows[0]'s token, if there is a row
squeue_token(q) ==
  IF q.exc = "none" /\ q.rows # <<>> THEN normalize_state(q.rows[1][1]) ELSE Ok(<<>>)

\* the rest of _status once rows[0] of squeue has given t
after_squeue_token(id, a_sa, sa_out, done, t) ==
  IF t.exc # "none" THEN with_cmds(Raised(t.exc), done)
  ELSE IF t.val # <<>> THEN with_cmds(t, done)
  ELSE status_from_sacct(id, a_sa, sa_out, done)

\* the squeue block of _status once squeue has answered with q
squeue_block(id, a_sa, sa_out, q) ==
  after_squeue_token(id, a_sa, sa_out, q.cmds, squeue_token(q))

\* _status(job_id): squeue first (only rows[0] is looked at), then sacct
_status(id, a_sq, a_sa, sq_out, sa_out) ==
  IF ~a_sq THEN status_from_sacct(id, a_sa, sa_out, <<>>)
  ELSE squeue_block(id, a_sa, sa_out, squeue(a_sq, sq_out, id))

UNKNOWN == <<"UNKNOWN">>

\* the availability check left out
status_gate_mut(a_sq, a_sa) == TRUE

\* if not (_which("squeue") or _which("sacct")): raise SlurmUnavailableError
status_gate(a_sq, a_sa) == a_sq \/ a_sa

\* the UNKNOWN default left out
or_unknown_mut(v) == v

\* s or "UNKNOWN"
or_unknown(v) == IF v = <<>> THEN UNKNOWN ELSE v

\* the outcome of a handle operation: how it ended, its value, the commands
\* it executed
Returned(v, done) == [kind |-> "return", value |-> v, cmds |-> done]

Raises(e, done) == [kind |-> "raise", value |-> <<e>>, cmds |-> done]

\* what Job.status does with the result r of _status
status_outcome(r) ==
  IF r.exc # "none" THEN Raises(r.exc, r.cmds)
  ELSE Returned(or_unknown(r.val), r.cmds)

\* job.py Job.status
job_status(id, a_sq, a_sa, sq_out, sa_out) ==
  IF ~status_gate(a_sq, a_sa) THEN Raises("SlurmUnavailableError", <<>>)
  ELSE status_outcome(_status(id, a_sq, a_sa, sq_out, sa_out))

\* ------------------------------------------------------------------------
\* backend.py: status resolution

\* out.split()[0].split("+")[0].split("(")[0].rstrip("*") of the stripped
\* squeue output
squeue_first_token(out) ==
  IF out # <<>> THEN RStripSet(Before(Before(SplitWS(out)[1], {"+"}), {"("}), {"*"})
  ELSE <<>>

_squeue_status(id, a_sq, sq_out) ==
  IF ~a_sq THEN [val |-> <<>>, cmds |-> <<>>]
  ELSE [val |-> squeue_first_token(Strip(sq_out)), cmds |-> <<Cmd("squeue", id)>>]

\* the first line that is not blank decides: no rstrip("*") on this path
sacct_first_line(lines) ==
  IF \A i \in 1..Len(lines) : Strip(lines[i]) = <<>> THEN <<>>
  ELSE Before(Before(SplitWS(Strip(
         lines[MinOf({i \in 1..Len(lines) : Strip(lines[i]) # <<>>}, Len(lines))]))[1],
         {"+"}), {"("})

_sacct_status(id, a_sa, sa_out) ==
  IF ~a_sa THEN [val |-> <<>>, cmds |-> <<>>]
  ELSE [val |-> sacct_first_line(SplitLines(sa_out)), cmds |-> <<Cmd("sacct", id)>>]

\* the sacct fallback of Job.status after squeue gave q
sacct_fallback(q, h) == Returned(or_unknown(h.val), q.cmds \o h.cmds)

\* what Job.status does with the squeue answer q
after_squeue(id, a_sa, sa_out, q) ==
  IF q.val # <<>> THEN Returned(or_unknown(q.val), q.cmds)
  ELSE sacct_fallback(q, _sacct_status(id, a_sa, sa_out))

\* backend.py Job.status
backend_status(id, a_sq, a_sa, sq_out, sa_out) ==
  IF ~status_gate(a_sq, a_sa) THEN Raises("SlurmUnavailableError", <<>>)
  ELSE after_squeue(id, a_sa, sa_out, _squeue_status(id, a_sq, sq_out))

\* the status property of the handle's class
Job_status(module, id, a_sq, a_sa, sq_out, sa_out) ==
  IF module = "job" THEN job_status(id, a_sq, a_sa, sq_out, sa_out)
  ELSE backend_status(id, a_sq, a_sa, sq_out, sa_out)

\* ------------------------------------------------------------------------
\* job.py / backend.py: the state sets and the Job handle

TERMINAL ==
  {<<"COMPLETED">>, <<"FAILED">>, <<"CANCELLED">>, <<"TIMEOUT">>, <<"PREEMPTED">>,
   <<"BOOT_FAIL">>, <<"NODE_FAIL">>}

RUNNINGISH ==
  {<<"PENDING">>, <<"CONFIGURING">>, <<"RUNNING">>, <<"COMPLETING">>, <<"STAGE_OUT">>,
   <<"SUSPENDED">>, <<"RESV_DEL_HOLD">>}

\* Python's None where a string is expected
None == <<"None">>

\* timeout=None of wait()
NoTimeout == -1

Impls == {"job", "backend"}

\* a handle as submit() builds it, and one as list_jobs() builds it
SubmittedHandle ==
  [id |-> 42, name |-> "job_2025-01-01_00-00-00.000", user |-> "alice", partition |-> "gpu",
   stdout_path |-> "slurm_logs/42.txt", stderr_path |-> "slurm_logs/42.err"]

ListedHandle ==
  [id |-> 7, name |-> "train", user |-> "bob", partition |-> "cpu",
   stdout_path |-> "None", stderr_path |-> "None"]

\* what squeue / sacct may print for one job id: nothing, a blank line, a
\* line of whitespace, a lone flag, states inside and outside the two sets,
\* a flagged state, a state with trailing words, a line with a second field,
\* a second row
ToolOutputs ==
  { <<>>,
    <<NL>>,
    <<SP, NL>>,
    <<"*", NL>>,
    <<"RUNNING", NL>>,
    <<"FAILED", NL>>,
    <<"OUT_OF_MEMORY", NL>>,
    <<"FAILED", "*", NL>>,
    <<"CANCELLED", SP, "by", SP, "1000", NL>>,
    <<"RUNNING", "|", "extra", NL>>,
    <<"*", NL, "RUNNING", NL>> }

\* what one status query can find: which of the two tools are on PATH and
\* what each prints (a tool that is absent prints nothing)
Observations ==
  UNION {UNION {{[a_sq |-> a, a_sa |-> b, sq_out |-> x, sa_out |-> y] :
                   x \in IF a THEN ToolOutputs ELSE {<<>>},
                   y \in IF b THEN ToolOutputs ELSE {<<>>}} : a \in BOOLEAN} : b \in BOOLEAN}

PollIntervals == 1..2

Timeouts == {NoTimeout} \cup 0..2

\* the raw strings handed to the normaliser: every string of at most
\* MaxStrLen symbols in which no two words are adjacent
NormWords == {"FAILED", "by"}

NormAlphabet == NormWords \cup Specials


well_formed(u) == \A i \in 1..(Len(u) - 1) : ~(u[i] \in NormWords /\ u[i + 1] \in NormWords)

RawStrings == {u \in UNION {[1..n -> NormAlphabet] : n \in 0..MaxStrLen} : well_formed(u)}

VARIABLES
  impl,        \* which module's Job class the handle is an instance of
  handle,      \* the fields of the handle other than last_status
  last_status, \* Job.last_status
  ret,         \* how the last operation ended
  cmds,        \* the scheduler commands the last operation executed
  obs,         \* what the tools showed to the last status/is_running/is_finished
  scancel_exit, \* <<>>, or <<rc>>: the exit status of the last scancel the handle ran
  job_done,    \* the scheduler reports the job in a terminal state from now on
  w_pc,        \* "idle", or "polling" inside wait()
  w_timeout,   \* wait(): timeout
  w_poll,      \* wait(): poll_interval
  w_elapsed,   \* wait(): time.time() - start
  w_queries,   \* wait(): status queries made
  w_sleeps,    \* wait(): calls of time.sleep
  w_s,         \* wait(): the local s
  n_in,        \* normaliser: the raw string
  n_once,      \* normaliser: normalize_state(n_in)
  n_twice,     \* normaliser: normalize_state of n_once
  r_live,      \* status resolved with n_in as squeue's line
  r_hist,      \* status resolved with n_in as sacct's line
  q_in,        \* the last module-level call: its name, arguments, tools on PATH, tool output
  q_out,       \* how that call ended: value or exception, and the commands it executed
  s_pc,        \* "idle", the statement a stepwise status query is at, or "done"
  path_now     \* the tools on PATH right now, while a stepwise status query runs

vars ==
  <<impl, handle, last_status, ret, cmds, obs, scancel_exit, job_done, w_pc, w_timeout, w_poll, w_elapsed,
    w_queries, w_sleeps, w_s, n_in, n_once, n_twice, r_live, r_hist, q_in, q_out, s_pc, path_now>>

waitVars == <<w_pc, w_timeout, w_poll, w_elapsed, w_queries, w_sleeps, w_s>>

normVars == <<n_in, n_once, n_twice, r_live, r_hist>>

queryVars == <<q_in, q_out>>

raceVars == <<s_pc, path_now>>

NoRet == [op |-> "none", kind |-> "none", value |-> None, flag |-> FALSE]

NoObs == [a_sq |-> FALSE, a_sa |-> FALSE, sq_out |-> <<>>, sa_out |-> <<>>]

NotYet == [exc |-> "pending", val |-> <<>>]

NoResult == [kind |-> "none", value |-> None, cmds |-> <<>>]

NoCall == [op |-> "none", avail |-> {}, out |-> <<>>, out2 |-> <<>>, arg |-> <<>>]

\* no module-level call made yet
InitQuery ==
  /\ q_in = NoCall
  /\ q_out = NoResult
  /\ s_pc = "idle"
  /\ path_now = {}

\* the handle right after submit() (last_status None) or list_jobs() (snapshot)
InitHandle ==
  /\ impl \in Impls
  /\ \/ handle = SubmittedHandle /\ last_status = None
     \/ handle = ListedHandle /\ last_status = <<"RUNNING">>
  /\ ret = NoRet
  /\ cmds = <<>>
  /\ obs = NoObs
  /\ scancel_exit = <<>>
  /\ job_done = FALSE

InitWait ==
  /\ w_pc = "idle"
  /\ w_timeout = NoTimeout
  /\ w_poll = 0
  /\ w_elapsed = 0
  /\ w_queries = 0
  /\ w_sleeps = 0
  /\ w_s = None

Init ==
  /\ InitHandle
  /\ InitWait
  /\ n_in = <<>>
  /\ n_once = NotYet
  /\ n_twice = NotYet
  /\ r_live = NoResult
  /\ r_hist = NoResult
  /\ InitQuery

\* outside wait() its locals hold their defaults
ResetWait ==
  /\ w_pc' = "idle"
  /\ w_timeout' = NoTimeout
  /\ w_poll' = 0
  /\ w_elapsed' = 0
  /\ w_queries' = 0
  /\ w_sleeps' = 0
  /\ w_s' = None

\* UNKNOWN not cached
set_last_status_mut(old, r) ==
  IF r.kind = "return" /\ r.value # UNKNOWN THEN r.value ELSE old

\* self.last_status = s, reached only when the query did not raise
set_last_status(old, r) == IF r.kind = "return" THEN r.value ELSE old

\* self.status of either class, for every handle and observation
StatusTable ==
  {[impl |-> i, handle |-> h, o |-> o,
    r |-> Job_status(i, h.id, o.a_sq, o.a_sa, o.sq_out, o.sa_out)] :
     i \in Impls, h \in {SubmittedHandle, ListedHandle}, o \in Observations}

\* every way one evaluation of self.status can end
StatusOutcomes == {[impl |-> e.impl, handle |-> e.handle, r |-> e.r] : e \in StatusTable}

in_RUNNINGISH(v) == v \in RUNNINGISH

\* finished taken to mean not running
in_TERMINAL_mut(v) == v \notin RUNNINGISH

in_TERMINAL(v) == v \in TERMINAL

\* what the operation hands back besides the state: the membership test of
\* is_running / is_finished
flag_of(op, v) ==
  IF op = "is_running" THEN in_RUNNINGISH(v)
  ELSE IF op = "is_finished" THEN in_TERMINAL(v)
  ELSE FALSE

\* what a status query can find: anything while the job is live, a terminal
\* state once the scheduler reports the job terminal for good
reportable(r) == job_done => (r.kind = "return" /\ r.value \in TERMINAL)

\* one evaluation of self.status
StatusQuery(op) ==
  /\ w_pc = "idle"
  /\ \E e \in StatusTable :
       /\ e.impl = impl
       /\ e.handle = handle
       /\ reportable(e.r)
       /\ last_status' = set_last_status(last_status, e.r)
       /\ ret' = [op |-> op, kind |-> e.r.kind, value |-> e.r.value,
                  flag |-> e.r.kind = "return" /\ flag_of(op, e.r.value)]
       /\ cmds' = e.r.cmds
       /\ obs' = e.o
       /\ ResetWait
       /\ UNCHANGED <<impl, handle, scancel_exit, job_done, normVars, queryVars, raceVars>>

\* return self.status in _RUNNINGISH
is_running == StatusQuery("is_running")

\* return self.status in _TERMINAL
is_finished == StatusQuery("is_finished")

Status == StatusQuery("status")

\* the cancellation aimed at another job
cancel_cmds_mut(id) == <<Cmd("scancel", id + 1)>>

\* Job.cancel: _require("scancel"), then scancel <id> with check=False
cancel_cmds(id) == <<Cmd("scancel", id)>>

\* the exit statuses scancel ends with: success, or a failure such as an
\* invalid job id
ExitCodes == {0, 1}

\* every non-zero exit raises, whatever check says
_run_raises_mut(check, rc) == rc # 0

\* backend.py _run: subprocess.run(..., check=check) raises
\* CalledProcessError iff check is set and the exit status is not zero
_run_raises(check, rc) == check /\ rc # 0

\* utils.run_command, the executor job.py imports: it never raises on a
\* non-zero exit unless check is set
run_command_raises(check, rc) == check /\ rc # 0

\* does the executor of the given module raise for this exit status
executor_raises(module, check, rc) ==
  IF module = "backend" THEN _run_raises(check, rc) ELSE run_command_raises(check, rc)

\* how cancel() ends: _require raises when scancel is not on PATH, the
\* command is run with check=False, and the method returns None
cancel_outcome(module, avail, rc) ==
  IF ~avail THEN [kind |-> "raise", value |-> <<"SlurmUnavailableError">>]
  ELSE IF executor_raises(module, FALSE, rc)
       THEN [kind |-> "raise", value |-> <<"CalledProcessError">>]
       ELSE [kind |-> "return", value |-> None]

cancel ==
  \E avail \in BOOLEAN, rc \in ExitCodes :
    /\ w_pc = "idle"
    /\ ret' = [op |-> "cancel", kind |-> cancel_outcome(impl, avail, rc).kind,
               value |-> cancel_outcome(impl, avail, rc).value, flag |-> FALSE]
    /\ cmds' = IF avail THEN cancel_cmds(handle.id) ELSE <<>>
    /\ scancel_exit' = IF avail THEN <<rc>> ELSE scancel_exit
    /\ obs' = NoObs
    /\ ResetWait
    /\ UNCHANGED <<impl, handle, last_status, job_done, normVars, queryVars, raceVars>>

\* Job.info: _require("scontrol"), then scontrol -o show job <id>
info_cmds(id) == <<Cmd("scontrol", id)>>

info ==
  \E avail \in BOOLEAN :
    /\ w_pc = "idle"
    /\ ret' = [op |-> "info", kind |-> IF avail THEN "return" ELSE "raise",
               value |-> IF avail THEN None ELSE <<"SlurmUnavailableError">>, flag |-> FALSE]
    /\ cmds' = IF avail THEN info_cmds(handle.id) ELSE <<>>
    /\ obs' = NoObs
    /\ ResetWait
    /\ UNCHANGED <<impl, handle, last_status, scancel_exit, job_done, normVars, queryVars, raceVars>>

\* Job.tail: FileNotFoundError when the path is unknown or the file cannot be
\* read, else the last lines of the file; no scheduler command
tail ==
  \E readable \in BOOLEAN :
    /\ w_pc = "idle"
    /\ ret' = IF handle.stdout_path # "None" /\ readable
              THEN [op |-> "tail", kind |-> "return", value |-> None, flag |-> FALSE]
              ELSE [op |-> "tail", kind |-> "raise", value |-> <<"FileNotFoundError">>,
                    flag |-> FALSE]
    /\ cmds' = <<>>
    /\ obs' = NoObs
    /\ ResetWait
    /\ UNCHANGED <<impl, handle, last_status, scancel_exit, job_done, normVars, queryVars, raceVars>>

\* only COMPLETED ends the wait
wait_is_done_mut(v) == v = <<"COMPLETED">>

\* if s in _TERMINAL: return s
wait_is_done(v) == v \in TERMINAL

\* the timeout never looked at
wait_timed_out_mut(timeout, elapsed) == FALSE

\* if timeout is not None and (time.time() - start) > timeout: return s
wait_timed_out(timeout, elapsed) == timeout # NoTimeout /\ elapsed > timeout

\* wait(poll_interval, timeout): start = time.time()
wait_begin ==
  \E poll \in PollIntervals, timeout \in Timeouts :
    /\ w_pc = "idle"
    /\ w_pc' = "polling"
    /\ w_timeout' = timeout
    /\ w_poll' = poll
    /\ w_elapsed' = 0
    /\ w_queries' = 0
    /\ w_sleeps' = 0
    /\ w_s' = None
    /\ ret' = [op |-> "wait", kind |-> "none", value |-> None, flag |-> FALSE]
    /\ cmds' = <<>>
    /\ obs' = NoObs
    /\ UNCHANGED <<impl, handle, last_status, scancel_exit, job_done, normVars, queryVars, raceVars>>

\* one turn of the while loop of wait(); the query takes d seconds
wait_poll ==
  /\ w_pc = "polling"
  /\ \E d \in 0..MaxQueryTime, e \in StatusOutcomes :
       LET r == e.r
           elapsed == w_elapsed + d
           leave == r.kind = "raise" \/ wait_is_done(r.value)
                      \/ wait_timed_out(w_timeout, elapsed) IN
       /\ e.impl = impl
       /\ e.handle = handle
       /\ reportable(r)
       /\ elapsed + (IF leave THEN 0 ELSE w_poll) <= MaxTime
       /\ last_status' = set_last_status(last_status, r)
       /\ cmds' = r.cmds
       /\ w_queries' = w_queries + 1
       /\ w_s' = IF r.kind = "return" THEN r.value ELSE w_s
       /\ IF leave
          THEN /\ w_pc' = "idle"
               /\ ret' = [op |-> "wait", kind |-> r.kind, value |-> r.value, flag |-> FALSE]
               /\ w_elapsed' = elapsed
               /\ w_sleeps' = w_sleeps
          ELSE /\ w_pc' = "polling"
               /\ ret' = ret
               /\ w_elapsed' = elapsed + w_poll
               /\ w_sleeps' = w_sleeps + 1
       /\ UNCHANGED <<impl, handle, obs, scancel_exit, job_done, w_timeout, w_poll, normVars,
                      queryVars, raceVars>>

Next ==
  \/ Status
  \/ is_running
  \/ is_finished
  \/ cancel
  \/ info
  \/ tail
  \/ wait_begin
  \/ wait_poll

Spec == Init /\ [][Next]_vars

\* the job reaches a terminal state and is reported so ever after
job_ends ==
  /\ ~job_done
  /\ job_done' = TRUE
  /\ UNCHANGED <<impl, handle, last_status, ret, cmds, obs, scancel_exit, waitVars,
                 normVars, queryVars, raceVars>>

\* wait() running while the job goes its way; every status query and every
\* sleep of the loop completes, so a turn of the loop that can be taken is
\* taken
NextWait ==
  \/ wait_begin
  \/ wait_poll
  \/ job_ends

SpecWait == Init /\ [][NextWait]_vars /\ WF_vars(wait_poll)

\* ------------------------------------------------------------------------
\* The normaliser and the two resolution paths on one raw string

InitNorm ==
  /\ impl \in Impls
  /\ handle = SubmittedHandle
  /\ last_status = None
  /\ ret = NoRet
  /\ cmds = <<>>
  /\ obs = NoObs
  /\ scancel_exit = <<>>
  /\ job_done = FALSE
  /\ InitWait
  /\ n_in \in RawStrings
  /\ n_once = NotYet
  /\ n_twice = NotYet
  /\ r_live = NoResult
  /\ r_hist = NoResult
  /\ InitQuery

handleVars == <<impl, handle, last_status, ret, cmds, obs, scancel_exit, job_done>>

Normalize ==
  /\ n_once = NotYet
  /\ n_once' = normalize_state(n_in)
  /\ UNCHANGED <<handleVars, waitVars, queryVars, raceVars, n_in, n_twice, r_live, r_hist>>

NormalizeAgain ==
  /\ n_once.exc = "none"
  /\ n_twice = NotYet
  /\ n_twice' = normalize_state(n_once.val)
  /\ UNCHANGED <<handleVars, waitVars, queryVars, raceVars, n_in, n_once, r_live, r_hist>>

\* n_in is the one line squeue prints; sacct is not installed
ResolveLive ==
  /\ r_live = NoResult
  /\ r_live' = Job_status(impl, handle.id, TRUE, FALSE, n_in \o <<NL>>, <<>>)
  /\ UNCHANGED <<handleVars, waitVars, queryVars, raceVars, n_in, n_once, n_twice, r_hist>>

\* n_in is the one line sacct prints; squeue is not installed
ResolveHist ==
  /\ r_hist = NoResult
  /\ r_hist' = Job_status(impl, handle.id, FALSE, TRUE, <<>>, n_in \o <<NL>>)
  /\ UNCHANGED <<handleVars, waitVars, queryVars, raceVars, n_in, n_once, n_twice, r_live>>

NextNorm ==
  \/ Normalize
  \/ NormalizeAgain
  \/ ResolveLive
  \/ ResolveHist

SpecNorm == InitNorm /\ [][NextNorm]_vars

\* ------------------------------------------------------------------------
\* _slurm.py: the five adapters

\* module-level calls name no job
NoJob == 0

Adapters == {"squeue", "sacct", "sinfo", "sprio", "sshare"}

\* every adapter splitting at whitespace
adapter_sep_mut(tool) == NoSep

\* the separator each adapter hands to _table: "|" for squeue, sacct and
\* sinfo, None for sprio and sshare
adapter_sep(tool) == IF tool \in {"sprio", "sshare"} THEN NoSep ELSE "|"

\* {k: v for k, v in zip(keys, parts)}: a key named twice keeps its last token
zip_row(keys, parts) ==
  [k \in {keys[i] : i \in 1..Len(keys)} |->
     parts[MaxOf({i \in 1..Len(keys) : keys[i] = k}, 0)]]

zip_rows(keys, rows) == [i \in 1..Len(rows) |-> zip_row(keys, rows[i])]

\* the availability check forgotten
adapter_call_mut(tool, fields, on_path, out) ==
  Returned(zip_rows(fields, _table(out, Len(fields), adapter_sep(tool))),
           <<Cmd(tool, NoJob)>>)

\* squeue / sacct / sinfo / sprio / sshare with check=True: require(tool),
\* then _table(cmd, list(fields), sep)
adapter_call(tool, fields, on_path, out) ==
  IF ~on_path THEN Raises("SlurmUnavailableError", <<>>)
  ELSE Returned(zip_rows(fields, _table(out, Len(fields), adapter_sep(tool))),
                <<Cmd(tool, NoJob)>>)

\* field lists a caller may ask for, by adapter
AdapterFields(tool) ==
  IF tool \in {"squeue", "sacct"}
  THEN {<<"state">>, <<"id", "name", "state">>, <<"id", "name", "user", "state">>}
  ELSE IF tool = "sinfo" THEN {<<"state", "count">>, <<"part", "cpus", "gres", "nodes">>}
  ELSE IF tool = "sprio" THEN {<<"user", "fairshare">>, <<"job_id", "user", "priority">>}
  ELSE {<<"user", "fairshare">>, <<"user", "account", "fairshare">>}

\* lines a tool may print: blank, one to four fields, fields with blanks
\* around or inside them, an empty field, whitespace-separated fields
TableLines ==
  { <<>>,
    <<SP>>,
    <<"a">>,
    <<"a", "|", "b">>,
    <<"a", SP, "b">>,
    <<SP, "a", "|", "b", SP, "c">>,
    <<"a", "|", "|", "c">>,
    <<"a", "|", "b", "|", "c">>,
    <<"a", SP, SP, "b", SP, "c">>,
    <<"a", "|", "b", "|", "c", "|", "d">> }

\* every output of at most MaxTableLines lines, each ended by a newline, the
\* last one possibly not
TableTexts ==
  UNION {UNION {{Flatten(ls, fin) : fin \in BOOLEAN} : ls \in [1..n -> TableLines]} :
           n \in 0..MaxTableLines}

\* the literal fixture: "1|job1|RUNNING\n2|job2\n3|job3|PENDING|extra\n"
FixtureText ==
  <<"1", "|", "job", "1", "|", "RUNNING", NL, "2", "|", "job", "2", NL,
    "3", "|", "job", "3", "|", "PENDING", "|", "extra", NL>>

\* before a module-level call: impl is the module whose function is called
InitCalls ==
  /\ impl \in Impls
  /\ handle = SubmittedHandle
  /\ last_status = None
  /\ ret = NoRet
  /\ cmds = <<>>
  /\ obs = NoObs
  /\ scancel_exit = <<>>
  /\ job_done = FALSE
  /\ InitWait
  /\ n_in = <<>>
  /\ n_once = NotYet
  /\ n_twice = NotYet
  /\ r_live = NoResult
  /\ r_hist = NoResult
  /\ InitQuery

\* one call of an adapter of _slurm.py, the module job.py is built on
Adapter ==
  \E tool \in Adapters, on_path \in BOOLEAN :
    /\ q_in = NoCall
    /\ impl = "job"
    /\ \E fields \in AdapterFields(tool),
          out \in IF on_path THEN TableTexts \cup {FixtureText} ELSE {<<>>} :
         /\ q_in' = [op |-> tool, avail |-> IF on_path THEN {tool} ELSE {},
                     out |-> out, out2 |-> <<>>, arg |-> fields]
         /\ q_out' = adapter_call(tool, fields, on_path, out)
         /\ UNCHANGED <<handleVars, waitVars, normVars, raceVars>>

\* ------------------------------------------------------------------------
\* backend.py: node_state_counts

\* state.split()[0].split("+")[0].split("(")[0].rstrip("*"), as written inline
\* in the listing and counting loops: an IndexError on a blank state
state_token(state) == clean_token(Index0(SplitWS(state)))

\* counts[token] = int(count): the last count instead of the sum
count_for_mut(k, toks, nums) ==
  nums[MaxOf({i \in 1..Len(toks) : toks[i].val = k /\ nums[i].exc = "none"}, 0)].val

\* the sum of the counts that parse, over the rows whose token is k
count_for(k, toks, nums) ==
  SumSeq([i \in 1..Len(toks) |->
            IF toks[i].val = k /\ nums[i].exc = "none" THEN nums[i].val ELSE 0])

\* the Counter after the loop: counts[token] += int(count), a row whose count
\* does not parse left out
counter_of(toks, nums) ==
  [k \in {toks[i].val : i \in {j \in 1..Len(toks) : nums[j].exc = "none"}} |->
     count_for(k, toks, nums)]

\* the loop of node_state_counts over the two-field rows
count_rows(toks, nums, done) ==
  IF \E i \in 1..Len(toks) : toks[i].exc # "none" THEN Raises("IndexError", done)
  ELSE Returned(counter_of(toks, nums), done)

\* the two-field lines of sinfo -h -o "%T|%D"
node_rows(rows) ==
  count_rows([i \in 1..Len(rows) |-> state_token(rows[i][1])],
             [i \in 1..Len(rows) |-> int_of(rows[i][2])],
             <<Cmd("sinfo", NoJob)>>)

node_state_counts(on_path, out) ==
  IF ~on_path THEN Raises("SlurmUnavailableError", <<>>)
  ELSE node_rows(table_rows(SplitLines(out), 2, "|"))

\* lines sinfo may print for "%T|%D": states with and without flags, a
\* repeated state, counts that do not parse, a blank state, other field counts
NodeLines ==
  { <<>>,
    <<"idle", "|", "4">>,
    <<"idle", "*", "|", "2">>,
    <<"mixed", "|", "1", "2">>,
    <<"alloc", "+", "drain", "|", SP, "3">>,
    <<"idle", "|", "x">>,
    <<"mixed", "|">>,
    <<"|", "5">>,
    <<SP, "|", "5">>,
    <<"idle">>,
    <<"idle", "|", "4", "|", "1">> }

NodeTexts ==
  UNION {UNION {{Flatten(ls, fin) : fin \in BOOLEAN} : ls \in [1..n -> NodeLines]} :
           n \in 0..MaxTableLines}

NodeStateCounts ==
  \E on_path \in BOOLEAN :
    /\ q_in = NoCall
    /\ impl = "backend"
    /\ \E out \in IF on_path THEN NodeTexts ELSE {<<>>} :
         /\ q_in' = [op |-> "node_state_counts", avail |-> IF on_path THEN {"sinfo"} ELSE {},
                     out |-> out, out2 |-> <<>>, arg |-> <<>>]
         /\ q_out' = node_state_counts(on_path, out)
         /\ UNCHANGED <<handleVars, waitVars, normVars, raceVars>>

\* ------------------------------------------------------------------------
\* backend.py: recent_completions, with the calendar of datetime

is_leap(y) == y % 4 = 0 /\ (y % 100 # 0 \/ y % 400 = 0)

days_in_month(y, m) ==
  IF m = 2 THEN (IF is_leap(y) THEN 29 ELSE 28)
  ELSE IF m \in {4, 6, 9, 11} THEN 30 ELSE 31

\* the days of the year before the first of month m
days_before_month(y, m) == SumSeq([k \in 1..(m - 1) |-> days_in_month(y, k)])

\* the days before January 1st of year y
days_before_year(y) ==
  (y - 1) * 365 + ((y - 1) \div 4) - ((y - 1) \div 100) + ((y - 1) \div 400)

\* the ordinal of a date, 0001-01-01 being day 1, a Monday
ymd2ord(y, m, d) == days_before_year(y) + days_before_month(y, m) + d

\* Monday = 0 ... Sunday = 6
weekday_of(ord) == (ord + 6) % 7

\* the ordinal of the Monday that begins ISO week 1 of year y
isoweek1monday(y) ==
  IF weekday_of(ymd2ord(y, 1, 1)) > 3
  THEN ymd2ord(y, 1, 1) - weekday_of(ymd2ord(y, 1, 1)) + 7
  ELSE ymd2ord(y, 1, 1) - weekday_of(ymd2ord(y, 1, 1))

\* the ISO year and week of the day with ordinal ord in calendar year y
iso_year_week(y, ord) ==
  IF ord < isoweek1monday(y)
  THEN <<y - 1, (ord - isoweek1monday(y - 1)) \div 7 + 1>>
  ELSE IF ord >= isoweek1monday(y + 1) THEN <<y + 1, 1>>
  ELSE <<y, (ord - isoweek1monday(y)) \div 7 + 1>>

\* dt.isocalendar() without the weekday
isocalendar(dt) == iso_year_week(dt.year, ymd2ord(dt.year, dt.month, dt.day))

two_digits(n) == <<DigitSeq[((n \div 10) % 10) + 1], DigitSeq[(n % 10) + 1]>>

\* a year from 1000 to 9999 as strftime("%Y") and "{year}" write it
year_digits(y) == two_digits(y \div 100) \o two_digits(y % 100)

\* the fields of a stamp written YYYY-MM-DDTHH:MM:SS
stamp_fields(t) ==
  [year |-> Decimal(SubSeq(t, 1, 4)), month |-> Decimal(SubSeq(t, 6, 7)),
   day |-> Decimal(SubSeq(t, 9, 10)), hour |-> Decimal(SubSeq(t, 12, 13)),
   minute |-> Decimal(SubSeq(t, 15, 16)), second |-> Decimal(SubSeq(t, 18, 19))]

\* the fields name a moment that exists
valid_fields(f) ==
  /\ f.year >= 1
  /\ f.month \in 1..12
  /\ f.day \in 1..days_in_month(f.year, f.month)
  /\ f.hour <= 23 /\ f.minute <= 59 /\ f.second <= 59

\* the text has the shape dddd-dd-ddTdd:dd:dd
stamp_shape(t) ==
  /\ Len(t) = 19
  /\ \A i \in {1, 2, 3, 4, 6, 7, 9, 10, 12, 13, 15, 16, 18, 19} : t[i] \in Digits
  /\ t[5] = "-" /\ t[8] = "-" /\ t[11] = "T" /\ t[14] = ":" /\ t[17] = ":"

\* datetime.strptime(t, "%Y-%m-%dT%H:%M:%S") on texts whose fields, if any,
\* are written with all their digits
strptime(t) ==
  IF stamp_shape(t) /\ valid_fields(stamp_fields(t)) THEN Ok(stamp_fields(t))
  ELSE Raised("ValueError")

\* dt.strftime("%Y-%m-%d")
day_key(dt) ==
  year_digits(dt.year) \o <<"-">> \o two_digits(dt.month) \o <<"-">> \o two_digits(dt.day)

\* f"{year}-W{week:02d}" of an ISO year and week
week_key(yw) == year_digits(yw[1]) \o <<"-", "W">> \o two_digits(yw[2])

\* the key of the bucket a completion falls in
bucket_key(span, dt) == IF span = "week" THEN week_key(isocalendar(dt)) ELSE day_key(dt)

\* the order of the characters of a key: "-", the digits, "W"
char_rank(c) == IF c = "-" THEN 0 ELSE IF c \in Digits THEN 1 + DigitVal(c) ELSE 11

\* a < b as Python compares strings
str_less(a, b) ==
  \E i \in 1..(Len(a) + 1) :
    /\ i <= Len(b)
    /\ \A j \in 1..(i - 1) : a[j] = b[j]
    /\ i > Len(a) \/ char_rank(a[i]) < char_rank(b[i])

\* sorted(counts.items()): the keys ascending, each with its count
sorted_items(keys, stamps) ==
  [j \in 1..Cardinality(keys) |->
     <<CHOOSE k \in keys : Cardinality({x \in keys : str_less(x, k)}) = j - 1,
       Cardinality({i \in 1..Len(stamps) :
                      stamps[i] = CHOOSE k \in keys :
                                    Cardinality({x \in keys : str_less(x, k)}) = j - 1})>>]

\* the slice guarded against a zero count
last_items_mut(items, count) ==
  IF count = 0 THEN <<>>
  ELSE SubSeq(items, IF count > Len(items) THEN 1 ELSE Len(items) - count + 1, Len(items))

\* items[-count:] for count >= 0: -0 is 0, so a zero count keeps everything
last_items(items, count) ==
  IF count = 0 THEN items
  ELSE SubSeq(items, IF count > Len(items) THEN 1 ELSE Len(items) - count + 1, Len(items))

\* the key of the line's stamp, <<>> for a line the loop skips: a blank line
\* or one whose text before the first "." is no stamp
line_key(span, parsed) == IF parsed.exc # "none" THEN <<>> ELSE bucket_key(span, parsed.val)

\* the keys of the lines that count, in line order
line_keys(span, lines) ==
  SelectSeq([i \in 1..Len(lines) |-> line_key(span, strptime(Before(Strip(lines[i]), {"."})))],
            LAMBDA k : k # <<>>)

\* the histogram of the keys
histogram(stamps, count) ==
  last_items(sorted_items({stamps[i] : i \in 1..Len(stamps)}, stamps), count)

recent_completions(span, count, on_path, out) ==
  IF ~on_path THEN Raises("SlurmUnavailableError", <<>>)
  ELSE IF span \notin {"day", "week"} THEN Raises("ValueError", <<>>)
  ELSE Returned(histogram(line_keys(span, SplitLines(out)), count), <<Cmd("sacct", NoJob)>>)

\* a stamp as sacct prints an End time
Stamp(y, m, d) ==
  year_digits(y) \o <<"-">> \o two_digits(m) \o <<"-">> \o two_digits(d)
    \o <<"T", "1", "0", ":", "0", "0", ":", "0", "0">>

\* lines sacct may print for --format=End: completions on a Sunday, the Monday
\* after it that opens ISO week 1 of the next year, the Sunday and the Monday
\* a week later, one with fractional seconds, and lines that are no stamp
StampLines ==
  { <<>>,
    <<"Unknown">>,
    Stamp(2025, 2, 30),
    Stamp(2024, 12, 29),
    Stamp(2024, 12, 30),
    Stamp(2025, 1, 5) \o <<".", "1", "2", "3">>,
    <<SP>> \o Stamp(2025, 1, 6) }

StampTexts == UNION {{JoinLines(ls) : ls \in [1..n -> StampLines]} : n \in 0..MaxStampLines}

Spans == {"day", "week", "month"}

RecentCompletions ==
  \E on_path \in BOOLEAN :
    /\ q_in = NoCall
    /\ impl = "backend"
    /\ \E span \in Spans, count \in 0..MaxCount :
       \E out \in IF on_path /\ span \in {"day", "week"} THEN StampTexts ELSE {<<>>} :
         /\ q_in' = [op |-> "recent_completions", avail |-> IF on_path THEN {"sacct"} ELSE {},
                     out |-> out, out2 |-> <<>>, arg |-> <<span, count>>]
         /\ q_out' = recent_completions(span, count, on_path, out)
         /\ UNCHANGED <<handleVars, waitVars, normVars, raceVars>>

\* ------------------------------------------------------------------------
\* list_jobs of job.py and of backend.py

\* _parse_datetime on the texts of the Submit and Start columns: None for a
\* blank, "N/A" or "Unknown", the moment for a stamp, None for anything else
_parse_datetime(token) ==
  IF Strip(token) \in {<<>>, <<"N", "/", "A">>, <<"Unknown">>} THEN None
  ELSE IF strptime(Strip(token)).exc = "none" THEN strptime(Strip(token)).val
  ELSE None

\* the token of the state column: normalize_state in job.py, the inline
\* split chain in backend.py
row_token(module, state) ==
  IF module = "job" THEN normalize_state(state) ELSE state_token(state)

\* Job(id=..., name=..., ..., last_status=token) of one seven-field row
job_of(parts, token) ==
  [id |-> int_of(parts[1]).val, name |-> parts[2], user |-> parts[3],
   partition |-> parts[4], stdout_path |-> None, stderr_path |-> None,
   submit_time |-> _parse_datetime(parts[6]), start_time |-> _parse_datetime(parts[7]),
   last_status |-> token]

\* the loop over the rows whose id parses, toks[i] the token of rows[i]
job_list(toks, rows, done) ==
  IF \E i \in 1..Len(toks) : toks[i].exc # "none" THEN Raises("IndexError", done)
  ELSE Returned([i \in 1..Len(rows) |-> job_of(rows[i], toks[i].val)], done)

jobs_of(module, rows, done) ==
  job_list([i \in 1..Len(rows) |-> row_token(module, rows[i][5])], rows, done)

\* the rows a source is read for although it is not the one chosen
list_jobs_mut(module, a_sq, a_sa, sq_out, sa_out) ==
  IF ~a_sq /\ ~a_sa THEN Raises("SlurmUnavailableError", <<>>)
  ELSE jobs_of(module,
               SelectSeq(table_rows(SplitLines(IF a_sa THEN sa_out ELSE sq_out), 7, "|"),
                         LAMBDA p : int_of(p[1]).exc = "none"),
               <<Cmd(IF a_sa THEN "sacct" ELSE "squeue", NoJob)>>)

\* list_jobs(): squeue when it is on PATH, else sacct; a row is listed when it
\* has seven fields and its id is an integer
list_jobs(module, a_sq, a_sa, sq_out, sa_out) ==
  IF ~a_sq /\ ~a_sa THEN Raises("SlurmUnavailableError", <<>>)
  ELSE jobs_of(module,
               SelectSeq(table_rows(SplitLines(IF a_sq THEN sq_out ELSE sa_out), 7, "|"),
                         LAMBDA p : int_of(p[1]).exc = "none"),
               <<Cmd(IF a_sq THEN "squeue" ELSE "sacct", NoJob)>>)

\* the first four columns of a listing line: id, name, user, partition
Columns(id) == id \o <<"|", "train", "|", "alice", "|", "gpu", "|">>

\* lines a listing may print: a running job with its times, a cancelled job
\* with a reason, an id that is no integer, a blank and an empty state, a line
\* of six fields, a blank line
ListLines ==
  { <<>>,
    Columns(<<"7">>) \o <<"RUNNING", "|">> \o Stamp(2024, 12, 30) \o <<"|", "N", "/", "A">>,
    Columns(<<SP, "8">>) \o <<"CANCELLED", SP, "by", SP, "1", "|", "Unknown", "|">>,
    Columns(<<"x">>) \o <<"PENDING", "|", "N", "/", "A", "|", "N", "/", "A">>,
    Columns(<<"9">>) \o <<SP, "|", "N", "/", "A", "|", "N", "/", "A">>,
    Columns(<<"9">>) \o <<"|", "N", "/", "A", "|", "N", "/", "A">>,
    Columns(<<"5">>) \o <<"COMPLETED", "|", "N", "/", "A">> }

ListTexts ==
  UNION {UNION {{Flatten(ls, fin) : fin \in BOOLEAN} : ls \in [1..n -> ListLines]} :
           n \in 0..MaxTableLines}

\* what sacct would print were it asked
HistoryTexts == {<<>>, Columns(<<"3">>) \o <<"FAILED", "|", "N", "/", "A", "|", "N", "/", "A", NL>>}

ListJobs ==
  \E a_sq \in BOOLEAN, a_sa \in BOOLEAN :
    /\ q_in = NoCall
    /\ \E sq_out \in IF a_sq THEN ListTexts ELSE {<<>>},
          sa_out \in IF ~a_sa THEN {<<>>} ELSE IF a_sq THEN HistoryTexts ELSE ListTexts :
         /\ q_in' = [op |-> "list_jobs",
                     avail |-> {t \in {"squeue", "sacct"} :
                                  (t = "squeue" /\ a_sq) \/ (t = "sacct" /\ a_sa)},
                     out |-> sq_out, out2 |-> sa_out, arg |-> <<>>]
         /\ q_out' = list_jobs(impl, a_sq, a_sa, sq_out, sa_out)
         /\ UNCHANGED <<handleVars, waitVars, normVars, raceVars>>

\* ------------------------------------------------------------------------
\* backend.py: _parse_gpu and _partition_caps

\* text.split(sep)[-1]
last_piece(text, sep) == SubSeq(text, MaxOf({i \in 1..Len(text) : text[i] = sep}, 0) + 1, Len(text))

\* int(text) inside try ... except ValueError: pass, the value staying 0
int_or_zero(text) == IF int_of(text).exc = "none" THEN int_of(text).val ELSE 0

\* the GPUs one token of a GRES string stands for: the number after the last
\* ":" of a token that starts with "gpu:", 0 when that is no integer
gpu_of(token) ==
  IF Len(token) >= 2 /\ token[1] = "gpu" /\ token[2] = ":"
  THEN int_or_zero(last_piece(token, ":"))
  ELSE 0

\* the loop of _parse_gpu over gres.split(",")
gpu_total(tokens) ==
  SumSeq([i \in 1..Len(tokens) |-> gpu_of(Before(Strip(tokens[i]), {"("}))])

_parse_gpu(gres) == gpu_total(SplitOn(gres, ","))

\* (line + "|||").split("|")[:4]
four_fields(line) == SubSeq(SplitOn(line \o <<"|", "|", "|">>, "|"), 1, 4)

\* the GPUs of one node taken for those of the partition
cap_row_mut(parts) ==
  [part |-> RStripSet(parts[1], {"*"}),
   cpus |-> int_or_zero(last_piece(parts[2], "/")),
   gpus |-> _parse_gpu(parts[3])]

\* what one line of sinfo -ah -o "%P|%C|%G|%D" says
cap_row(parts) ==
  [part |-> RStripSet(parts[1], {"*"}),
   cpus |-> int_or_zero(last_piece(parts[2], "/")),
   gpus |-> _parse_gpu(parts[3]) * int_or_zero(parts[4])]

\* caps[part] = {...} line after line: the last line of a partition stays
caps_of(rows) ==
  [p \in {rows[i].part : i \in 1..Len(rows)} |->
     [cpus |-> rows[MaxOf({i \in 1..Len(rows) : rows[i].part = p}, 0)].cpus,
      gpus |-> rows[MaxOf({i \in 1..Len(rows) : rows[i].part = p}, 0)].gpus]]

\* the loop over out.splitlines(), one row appended per line
cap_rows(lines) ==
  LET acc[i \in 0..Len(lines)] ==
        IF i = 0 THEN <<>> ELSE Append(acc[i - 1], cap_row(four_fields(lines[i])))
  IN acc[Len(lines)]

_partition_caps(on_path, out) ==
  IF ~on_path THEN Raises("SlurmUnavailableError", <<>>)
  ELSE Returned(caps_of(cap_rows(SplitLines(out))), <<Cmd("sinfo", NoJob)>>)

\* str(n) of a natural number
RECURSIVE str_nat(_)
str_nat(n) ==
  IF n < 10 THEN <<DigitSeq[n + 1]>> ELSE str_nat(n \div 10) \o <<DigitSeq[(n % 10) + 1]>>

\* a line of sinfo: partition, allocated/total CPUs, GRES, node count
CapLine(part, used, total, gres, nodes) ==
  part \o <<"|">> \o str_nat(used) \o <<"/">> \o str_nat(total) \o <<"|">> \o gres
    \o <<"|">> \o str_nat(nodes)

\* lines sinfo may print: the partition of the test, a default partition with
\* a typed GRES and a socket hint, one without GPUs, the four-part CPU field,
\* a GPU type without a number, fields that are no numbers, a short line, a
\* partition without capacity, a blank line
CapLines ==
  { <<>>,
    CapLine(<<"gpu">>, 32, 64, <<"gpu", ":", "4">>, 4),
    CapLine(<<"gpu", "*">>, 0, 8,
            <<"gpu", ":", "a", "1", "0", "0", ":", "2", "(", "S", ":", "0", ")", ",", "mps", ":", "1", "0", "0">>, 2),
    CapLine(<<"cpu">>, 4, 16, <<"(", "null", ")">>, 3),
    <<"cpu", "|", "2", "/", "2", "/", "0", "/", "4", "|", "gpu", ":", "1", "|", "1">>,
    <<"cpu", "|", "1", "6", "|", "gpu", ":", "tesla", "|", "2">>,
    <<"gpu", "|", "x", "/", "y", "|", "gpu", ":", "1", "|", "n">>,
    <<"gpu", "|", "8", "/", "1", "6">>,
    CapLine(<<"idle">>, 0, 0, <<"gpu", ":", "2">>, 0) }

CapTexts ==
  UNION {UNION {{Flatten(ls, fin) : fin \in BOOLEAN} : ls \in [1..n -> CapLines]} :
           n \in 0..MaxTableLines}

PartitionCaps ==
  \E on_path \in BOOLEAN :
    /\ q_in = NoCall
    /\ impl = "backend"
    /\ \E out \in IF on_path THEN CapTexts ELSE {<<>>} :
         /\ q_in' = [op |-> "_partition_caps", avail |-> IF on_path THEN {"sinfo"} ELSE {},
                     out |-> out, out2 |-> <<>>, arg |-> <<>>]
         /\ q_out' = _partition_caps(on_path, out)
         /\ UNCHANGED <<handleVars, waitVars, normVars, raceVars>>

\* ------------------------------------------------------------------------
\* backend.py: partition_utilization

\* a command that names the job states it asks for
CmdStates(tool, states) == [tool |-> tool, id |-> NoJob, states |-> states]

\* squeue -h -t RUNNING
running_only == {"RUNNING"}

\* the greatest common divisor of two natural numbers
RECURSIVE gcd(_, _)
gcd(a, b) == IF b = 0 THEN a ELSE gcd(b, a % b)

\* the number n/d, d > 0 and n >= 0, in lowest terms; a Python float is the
\* nearest double to this number
frac(n, d) == <<n \div gcd(n, d), d \div gcd(n, d)>>

\* use / total, a ZeroDivisionError when total is 0
ratio(use, total) ==
  IF total = 0 THEN Raised("ZeroDivisionError") ELSE Ok(frac(use, total))

\* the division unguarded
pct_mut(use, total) == ratio(use, total)

\* use / total if total else 0.0
pct(use, total) == IF total # 0 THEN ratio(use, total) ELSE Ok(<<0, 1>>)

\* max(a, b) of two such numbers
max_frac(a, b) == IF a[1] * b[2] >= b[1] * a[2] THEN a ELSE b

\* (line + "||").split("|")[:3]
three_fields(line) == SubSeq(SplitOn(line \o <<"|", "|">>, "|"), 1, 3)

\* what one line of squeue -o "%P|%C|%b" says
use_row(parts) ==
  [part |-> parts[1], cpus |-> int_or_zero(parts[2]), gpus |-> _parse_gpu(parts[3])]

\* the loop over out.splitlines(), one row appended per line
use_rows(lines) ==
  LET acc[i \in 0..Len(lines)] ==
        IF i = 0 THEN <<>> ELSE Append(acc[i - 1], use_row(three_fields(lines[i])))
  IN acc[Len(lines)]

\* usage.get(part, {}) after the loop: the sums over the lines of the partition
usage_of(rows, p) ==
  [cpus |-> SumSeq([i \in 1..Len(rows) |-> IF rows[i].part = p THEN rows[i].cpus ELSE 0]),
   gpus |-> SumSeq([i \in 1..Len(rows) |-> IF rows[i].part = p THEN rows[i].gpus ELSE 0])]

\* max(cpu_pct, gpu_pct) * 100
percent(cpu_pct, gpu_pct) ==
  frac(100 * max_frac(cpu_pct.val, gpu_pct.val)[1], max_frac(cpu_pct.val, gpu_pct.val)[2])

\* the loop over caps.items(), cpu[p] and gpu[p] the two ratios of partition p
utils_of(cpu, gpu, done) ==
  IF \E p \in DOMAIN cpu : cpu[p].exc # "none" \/ gpu[p].exc # "none"
  THEN Raises("ZeroDivisionError", done)
  ELSE Returned([p \in DOMAIN cpu |-> percent(cpu[p], gpu[p])], done)

utilization(caps, rows, done) ==
  utils_of([p \in DOMAIN caps |-> pct(usage_of(rows, p).cpus, caps[p].cpus)],
           [p \in DOMAIN caps |-> pct(usage_of(rows, p).gpus, caps[p].gpus)], done)

\* partition_utilization(): _partition_caps(), then _require("squeue"), then
\* the usage of the running jobs
partition_utilization(a_si, a_sq, si_out, sq_out) ==
  IF ~a_si THEN Raises("SlurmUnavailableError", <<>>)
  ELSE IF ~a_sq THEN Raises("SlurmUnavailableError", <<Cmd("sinfo", NoJob)>>)
  ELSE utilization(caps_of(cap_rows(SplitLines(si_out))), use_rows(SplitLines(sq_out)),
                   <<Cmd("sinfo", NoJob), CmdStates("squeue", running_only)>>)

\* the GRES a job asked for
job_gres(n) == IF n = 0 THEN <<"N", "/", "A">> ELSE <<"gpu", ":">> \o str_nat(n)

\* the line squeue prints for a job under -o "%P|%C|%b"
job_line(j) == j.part \o <<"|">> \o str_nat(j.cpus) \o <<"|">> \o job_gres(j.gpus)

\* what squeue prints when asked for the jobs in the given states
squeue_prints(states, jobs) ==
  JoinLines([i \in 1..Len(SelectSeq(jobs, LAMBDA j : j.state \in states)) |->
               job_line(SelectSeq(jobs, LAMBDA j : j.state \in states)[i])])

\* jobs in the queue: running and pending ones, in partitions with and
\* without capacity
QueuedJobs ==
  { [part |-> <<"gpu">>, state |-> "RUNNING", cpus |-> 32, gpus |-> 8],
    [part |-> <<"gpu">>, state |-> "PENDING", cpus |-> 16, gpus |-> 4],
    [part |-> <<"cpu">>, state |-> "RUNNING", cpus |-> 4, gpus |-> 0],
    [part |-> <<"idle">>, state |-> "RUNNING", cpus |-> 2, gpus |-> 1],
    [part |-> <<"debug">>, state |-> "RUNNING", cpus |-> 1, gpus |-> 1] }

Queues == UNION {[1..n -> QueuedJobs] : n \in 0..MaxTableLines}

\* the capacity lines of the partitions: 64 CPUs and 8 GPUs, 16 CPUs and no
\* GPU, no capacity at all, one node of 8 CPUs and 1 GPU
SiteLines ==
  { CapLine(<<"gpu">>, 0, 64, <<"gpu", ":", "2">>, 4),
    CapLine(<<"cpu">>, 4, 16, <<"(", "null", ")">>, 3),
    CapLine(<<"idle">>, 0, 0, <<"gpu", ":", "2">>, 0),
    CapLine(<<"gpu">>, 0, 8, <<"gpu", ":", "1">>, 1) }

SiteTexts == UNION {{JoinLines(ls) : ls \in [1..n -> SiteLines]} : n \in 0..MaxTableLines}

PartitionUtilization ==
  \E a_si \in BOOLEAN, a_sq \in BOOLEAN :
    /\ q_in = NoCall
    /\ impl = "backend"
    /\ \E si_out \in IF a_si THEN SiteTexts ELSE {<<>>},
          jobs \in IF a_si /\ a_sq THEN Queues ELSE {<<>>} :
         /\ q_in' = [op |-> "partition_utilization",
                     avail |-> {t \in {"sinfo", "squeue"} :
                                  (t = "sinfo" /\ a_si) \/ (t = "squeue" /\ a_sq)},
                     out |-> si_out, out2 |-> squeue_prints(running_only, jobs), arg |-> jobs]
         /\ q_out' = partition_utilization(a_si, a_sq, si_out,
                                           squeue_prints(running_only, jobs))
         /\ UNCHANGED <<handleVars, waitVars, normVars, raceVars>>

\* ------------------------------------------------------------------------
\* backend.py: fairshare_scores

\* the digits of a text, its underscores dropped
digits_of(text) == SelectSeq(text, LAMBDA c : c # "_")

\* the text is digits "." digits with at least one digit, or digits alone
is_decimal(text) ==
  /\ Cardinality({i \in 1..Len(text) : text[i] = "."}) <= 1
  /\ Before(text, {"."}) # <<>> \/ After(text, {"."}) # <<>>
  /\ Before(text, {"."}) = <<>> \/ is_number(Before(text, {"."}))
  /\ After(text, {"."}) = <<>> \/ is_number(After(text, {"."}))

\* the number such a text writes, as a fraction in lowest terms
decimal_value(whole, part) ==
  frac(Decimal(whole \o part), 10 ^ Len(part))

\* the number written after an optional sign, or a ValueError
signed_decimal(text) ==
  IF text # <<>> /\ text[1] \in {"+", "-"}
  THEN IF is_decimal(Tail(text))
       THEN Ok(<<(IF text[1] = "-" THEN -1 ELSE 1)
                   * decimal_value(digits_of(Before(Tail(text), {"."})),
                                   digits_of(After(Tail(text), {"."})))[1],
                 decimal_value(digits_of(Before(Tail(text), {"."})),
                               digits_of(After(Tail(text), {"."})))[2]>>)
       ELSE Raised("ValueError")
  ELSE IF is_decimal(text)
       THEN Ok(decimal_value(digits_of(Before(text, {"."})), digits_of(After(text, {"."}))))
       ELSE Raised("ValueError")

\* float(text) on texts of digits, ".", "_", signs and words that name no
\* number; a Python float is the nearest double to the fraction
float_of(text) == signed_decimal(Strip(text))

\* scores[user] = float(val) line after line: the last line of a user whose
\* value parses stays
scores_of(users, vals) ==
  [u \in {users[i] : i \in {j \in 1..Len(users) : vals[j].exc = "none"}} |->
     vals[MaxOf({i \in 1..Len(users) : users[i] = u /\ vals[i].exc = "none"}, 0)].val]

\* the lines with at least two words
score_rows(lines) == SelectSeq([i \in 1..Len(lines) |-> SplitWS(lines[i])], LAMBDA w : Len(w) >= 2)

score_table(rows, done) ==
  Returned(scores_of([i \in 1..Len(rows) |-> rows[i][1]],
                     [i \in 1..Len(rows) |-> float_of(rows[i][2])]), done)

\* sshare asked first
fairshare_scores_mut(a_sp, a_ss, sp_out, ss_out) ==
  IF a_ss THEN score_table(score_rows(SplitLines(ss_out)), <<Cmd("sshare", NoJob)>>)
  ELSE IF a_sp THEN score_table(score_rows(SplitLines(sp_out)), <<Cmd("sprio", NoJob)>>)
  ELSE Returned(<<>>, <<>>)

\* fairshare_scores(): sprio if it is on PATH, else sshare if it is, else {}
fairshare_scores(a_sp, a_ss, sp_out, ss_out) ==
  IF a_sp THEN score_table(score_rows(SplitLines(sp_out)), <<Cmd("sprio", NoJob)>>)
  ELSE IF a_ss THEN score_table(score_rows(SplitLines(ss_out)), <<Cmd("sshare", NoJob)>>)
  ELSE Returned(<<>>, <<>>)

\* lines a source may print: users with their scores, a user listed twice, a
\* third column, a score that is no number, a lone word, a heading, blanks
ScoreLines ==
  { <<>>,
    <<"alice", SP, "0", ".", "5">>,
    <<"bob", SP, SP, "0", ".", "1", SP, "extra">>,
    <<"alice", SP, "0", ".", "2", "5">>,
    <<SP, "carol", SP, "1">>,
    <<"dave", SP, "N", "/", "A">>,
    <<"erin">>,
    <<"USER", SP, "FAIRSHARE">>,
    <<"frank", SP, ".", "5", SP>> }

ScoreTexts ==
  UNION {UNION {{Flatten(ls, fin) : fin \in BOOLEAN} : ls \in [1..n -> ScoreLines]} :
           n \in 0..MaxTableLines}

\* what sshare would print were it asked although sprio is installed
ShareTexts == {<<>>, <<"carol", SP, "0", ".", "7", NL>>}

FairshareScores ==
  \E a_sp \in BOOLEAN, a_ss \in BOOLEAN :
    /\ q_in = NoCall
    /\ impl = "backend"
    /\ \E sp_out \in IF a_sp THEN ScoreTexts ELSE {<<>>},
          ss_out \in IF ~a_ss THEN {<<>>} ELSE IF a_sp THEN ShareTexts ELSE ScoreTexts :
         /\ q_in' = [op |-> "fairshare_scores",
                     avail |-> {t \in {"sprio", "sshare"} :
                                  (t = "sprio" /\ a_sp) \/ (t = "sshare" /\ a_ss)},
                     out |-> sp_out, out2 |-> ss_out, arg |-> <<>>]
         /\ q_out' = fairshare_scores(a_sp, a_ss, sp_out, ss_out)
         /\ UNCHANGED <<handleVars, waitVars, normVars, raceVars>>

\* ------------------------------------------------------------------------
\* submit of job.py and of backend.py

\* the texts ls written one after the other
Concat(ls) ==
  LET acc[i \in 0..Len(ls)] == IF i = 0 THEN <<>> ELSE acc[i - 1] \o ls[i]
  IN acc[Len(ls)]

\* str(n) of an integer
str_int(n) == IF n < 0 THEN <<"-">> \o str_nat(0 - n) ELSE str_nat(n)

\* the job-id placeholder of a path template, one symbol
Placeholder == "%j"

\* str(path).replace("%j", str(job_id)): every placeholder replaced
replace_id(path, id) ==
  Concat([i \in 1..Len(path) |-> IF path[i] = Placeholder THEN str_int(id) ELSE <<path[i]>>])

SubmittedPrefix == <<"Submitted", SP, "batch", SP, "job", SP>>

\* s.startswith("Submitted batch job ")
announces(line) == Len(line) >= 6 /\ SubSeq(line, 1, 6) = SubmittedPrefix

\* the index of the first line that, stripped, starts with the prefix, 0 if
\* there is none
first_announcing(lines) == MinOf({i \in 1..Len(lines) : announces(Strip(lines[i]))}, 0)

\* int(s.split()[-1]) of that line; job_id stays None when there is no such
\* line or its last word is no integer
parsed_id(lines, i) ==
  IF i = 0 THEN Raised("None")
  ELSE int_of(SplitWS(Strip(lines[i]))[Len(SplitWS(Strip(lines[i])))])

\* RuntimeError(f"Could not parse job id.\nstdout:\n{out}\nstderr:\n{err}")
could_not_parse(out, err, done) ==
  [kind |-> "raise", value |-> <<"RuntimeError", out, err>>, cmds |-> done]

\* the Job that submit() returns
submitted_job(id, name, partition, stdout_file, stderr_file) ==
  [id |-> id, name |-> name, user |-> "alice", partition |-> partition,
   stdout_path |-> replace_id(stdout_file, id), stderr_path |-> replace_id(stderr_file, id),
   submit_time |-> None, start_time |-> None, last_status |-> None]

\* the part of submit() after the command has run, out and err stripped
parse_submission(id, out, err, stdout_file, stderr_file, done) ==
  IF id.exc # "none" THEN could_not_parse(out, err, done)
  ELSE Returned(submitted_job(id.val, <<"job_2025-01-01_00-00-00.000">>, <<"gpu">>,
                              stdout_file, stderr_file), done)

announced_id(text) == parsed_id(SplitLines(text), first_announcing(SplitLines(text)))

\* submit(): _require("sbatch"), run.sh must exist, then bash run.sh ... is
\* run and its stdout searched for the job id
submit(on_path, script, out, err, stdout_file, stderr_file) ==
  IF ~on_path THEN Raises("SlurmUnavailableError", <<>>)
  ELSE IF ~script THEN Raises("FileNotFoundError", <<>>)
  ELSE parse_submission(announced_id(Strip(out)), Strip(out), Strip(err),
                        stdout_file, stderr_file, <<Cmd("run.sh", NoJob)>>)

\* lines run.sh may print: the announcement, with blanks around it, without
\* an id, with an id that is no integer, with words before the id, with a
\* cluster name after it, in lower case, a warning, a blank line
SubmitLines ==
  { <<>>,
    SubmittedPrefix \o <<"4", "2">>,
    <<SP>> \o SubmittedPrefix \o <<"7", SP>>,
    SubmittedPrefix,
    SubmittedPrefix \o <<"x">>,
    SubmittedPrefix \o <<"foo", SP, "9">>,
    SubmittedPrefix \o <<"4", "2", SP, "on", SP, "cluster", SP, "c">>,
    <<"submitted", SP, "batch", SP, "job", SP, "5">>,
    <<"sbatch", ":", SP, "warning">> }

SubmitTexts == UNION {{JoinLines(ls) : ls \in [1..n -> SubmitLines]} : n \in 0..MaxTableLines}

ErrTexts == {<<>>, <<"sbatch", ":", SP, "error", NL>>}

\* path templates: the default, one without a placeholder, one with two
PathTemplates ==
  { <<"slurm_logs/", Placeholder, ".txt">>,
    <<"logs/out.txt">>,
    <<Placeholder, "/", Placeholder, ".log">> }

Submit ==
  \E on_path \in BOOLEAN, script \in BOOLEAN :
    /\ q_in = NoCall
    /\ \E out \in IF on_path /\ script THEN SubmitTexts ELSE {<<>>},
          err \in IF on_path /\ script THEN ErrTexts ELSE {<<>>},
          stdout_file \in PathTemplates :
         /\ q_in' = [op |-> "submit", avail |-> IF on_path THEN {"sbatch"} ELSE {},
                     out |-> out, out2 |-> err,
                     arg |-> <<stdout_file, <<"slurm_logs/", Placeholder, ".err">>, script>>]
         /\ q_out' = submit(on_path, script, out, err, stdout_file,
                            <<"slurm_logs/", Placeholder, ".err">>)
         /\ UNCHANGED <<handleVars, waitVars, normVars, raceVars>>

\* ------------------------------------------------------------------------
\* Job.cancel and Job.info, the same in job.py and backend.py

\* cancel(): _require("scancel"), then scancel <id>, its exit status ignored
Job_cancel(on_path, id) ==
  IF ~on_path THEN Raises("SlurmUnavailableError", <<>>)
  ELSE Returned(None, <<Cmd("scancel", id)>>)

\* k, v = token.split("=", 1)
key_of(token) == Before(token, {"="})

value_of(token) == After(token, {"="})

\* info[k] = v token after token: the last token of a key stays
info_of(tokens) ==
  [k \in {key_of(tokens[i]) : i \in 1..Len(tokens)} |->
     value_of(tokens[MaxOf({i \in 1..Len(tokens) : key_of(tokens[i]) = k}, 0)])]

\* the tokens of the output that hold an "="
pairs_of(text) == SelectSeq(SplitWS(text), LAMBDA t : \E i \in 1..Len(t) : t[i] = "=")

\* info(): _require("scontrol"), then scontrol -o show job <id>
Job_info(on_path, id, out) ==
  IF ~on_path THEN Raises("SlurmUnavailableError", <<>>)
  ELSE Returned(info_of(pairs_of(out)), <<Cmd("scontrol", id)>>)

\* what scontrol may print: nothing, the fields of the job, a value holding
\* an "=", a key given twice, a word that is no pair
InfoTexts ==
  { <<>>,
    <<"JobId", "=", "4", "2", SP, "JobState", "=", "RUNNING", NL>>,
    <<"Comment", "=", "a", "=", "b", SP, "JobId", "=", "4", "2", SP, "JobId", "=", "4", "3">>,
    <<"slurm_load_jobs", SP, "error", NL>>,
    <<SP, "=", SP, "Name", "=", NL>> }

CancelCall ==
  \E on_path \in BOOLEAN :
    /\ q_in = NoCall
    /\ q_in' = [op |-> "cancel", avail |-> IF on_path THEN {"scancel"} ELSE {},
                out |-> <<>>, out2 |-> <<>>, arg |-> <<>>]
    /\ q_out' = Job_cancel(on_path, handle.id)
    /\ UNCHANGED <<handleVars, waitVars, normVars, raceVars>>

InfoCall ==
  \E on_path \in BOOLEAN :
    /\ q_in = NoCall
    /\ \E out \in IF on_path THEN InfoTexts ELSE {<<>>} :
         /\ q_in' = [op |-> "info", avail |-> IF on_path THEN {"scontrol"} ELSE {},
                     out |-> out, out2 |-> <<>>, arg |-> <<>>]
         /\ q_out' = Job_info(on_path, handle.id, out)
         /\ UNCHANGED <<handleVars, waitVars, normVars, raceVars>>

NextQuery ==
  \/ Adapter
  \/ CancelCall
  \/ InfoCall
  \/ Submit
  \/ FairshareScores
  \/ PartitionUtilization
  \/ PartitionCaps
  \/ ListJobs
  \/ RecentCompletions
  \/ NodeStateCounts

SpecQuery == InitCalls /\ [][NextQuery]_vars

\* ------------------------------------------------------------------------
\* Job.status statement by statement, with PATH changing under it.  Each
\* availability check reads PATH when it is executed: the two reads of the
\* gate in status, the check in front of each source (_status in job.py,
\* _squeue_status/_sacct_status in backend.py), the require() inside each
\* adapter of job.py, and the launch of the tool itself.

StatusTools == {"squeue", "sacct"}

\* the statements that read PATH without running anything
CheckPoints ==
  {"gate_squeue", "gate_sacct", "which_squeue", "require_squeue", "which_sacct",
   "require_sacct"}

RunPoints == {"run_squeue", "run_sacct"}

\* the tool a statement looks for
tool_at(pc) ==
  IF pc \in {"gate_squeue", "which_squeue", "require_squeue", "run_squeue"} THEN "squeue"
  ELSE "sacct"

\* where control goes when the check finds its tool: past the gate into the
\* squeue check; from a source's check to the adapter's require() in job.py
\* and to the command in backend.py; from require() to the command
found(module, pc) ==
  IF pc \in {"gate_squeue", "gate_sacct"} THEN "which_squeue"
  ELSE IF pc = "which_squeue" THEN (IF module = "job" THEN "require_squeue" ELSE "run_squeue")
  ELSE IF pc = "which_sacct" THEN (IF module = "job" THEN "require_sacct" ELSE "run_sacct")
  ELSE IF pc = "require_squeue" THEN "run_squeue"
  ELSE "run_sacct"

\* where control goes when it does not: the gate's `or` reads sacct and
\* raises when that is missing too; a missing squeue (found by the check or
\* by require(), whose SlurmUnavailableError is caught) leads to the sacct
\* check; a missing sacct leads to return None, i.e. to "UNKNOWN"
missing(pc) ==
  IF pc = "gate_squeue" THEN "gate_sacct"
  ELSE IF pc = "gate_sacct" THEN "raise"
  ELSE IF pc \in {"which_squeue", "require_squeue"} THEN "which_sacct"
  ELSE "unknown"

\* the statement after a check
after_check(module, pc, present) == IF present THEN found(module, pc) ELSE missing(pc)

\* the call as it stands after a check that leads to target
check_result(target, done) ==
  IF target = "raise" THEN Raises("SlurmUnavailableError", done)
  ELSE IF target = "unknown" THEN Returned(or_unknown(<<>>), done)
  ELSE [kind |-> "none", value |-> None, cmds |-> done]

\* the token squeue's output gives
squeue_answer(module, id, out) ==
  IF module = "job" THEN squeue_token(squeue(TRUE, out, id))
  ELSE Ok(_squeue_status(id, TRUE, out).val)

\* the token sacct's output gives
sacct_answer(module, id, out) ==
  IF module = "job" THEN sacct_token(sacct(TRUE, out, id))
  ELSE Ok(_sacct_status(id, TRUE, out).val)

\* the call as it stands after a tool was launched: launching a tool that
\* has left PATH raises FileNotFoundError; a token that raises ends the call;
\* a token ends it with that state; no token after squeue leads on to the
\* sacct check, no token after sacct is "UNKNOWN"
run_result(tool, present, t, done) ==
  IF ~present THEN Raises("FileNotFoundError", done)
  ELSE IF t.exc # "none" THEN Raises(t.exc, done)
  ELSE IF t.val # <<>> \/ tool = "sacct" THEN Returned(or_unknown(t.val), done)
  ELSE [kind |-> "none", value |-> None, cmds |-> done]

\* what a tool prints for the job when it is run
StepOutputs == {<<>>, <<SP, NL>>, <<"*", NL>>, <<"RUNNING", NL>>, <<"FAILED", NL>>}

\* s = handle.status is called
status_begin ==
  /\ q_in = NoCall
  /\ s_pc = "idle"
  /\ \E present \in SUBSET StatusTools, sq_out \in StepOutputs, sa_out \in StepOutputs :
       /\ path_now' = present
       /\ q_in' = [op |-> "status", avail |-> present, out |-> sq_out, out2 |-> sa_out,
                   arg |-> <<>>]
  /\ q_out' = [kind |-> "none", value |-> None, cmds |-> <<>>]
  /\ s_pc' = "gate_squeue"
  /\ UNCHANGED <<handleVars, waitVars, normVars>>

\* one availability check is executed
status_check ==
  /\ s_pc \in CheckPoints
  /\ q_out' = check_result(after_check(impl, s_pc, tool_at(s_pc) \in path_now), q_out.cmds)
  /\ s_pc' = IF q_out'.kind = "none" THEN after_check(impl, s_pc, tool_at(s_pc) \in path_now)
             ELSE "done"
  /\ last_status' = set_last_status(last_status, q_out')
  /\ UNCHANGED <<impl, handle, ret, cmds, obs, scancel_exit, job_done, waitVars, normVars,
                 q_in, path_now>>

\* one tool is launched and its output parsed
status_run ==
  /\ s_pc \in RunPoints
  /\ q_out' = run_result(tool_at(s_pc), tool_at(s_pc) \in path_now,
                         IF s_pc = "run_squeue" THEN squeue_answer(impl, handle.id, q_in.out)
                         ELSE sacct_answer(impl, handle.id, q_in.out2),
                         IF tool_at(s_pc) \in path_now
                         THEN Append(q_out.cmds, Cmd(tool_at(s_pc), handle.id))
                         ELSE q_out.cmds)
  /\ s_pc' = IF q_out'.kind = "none" THEN "which_sacct" ELSE "done"
  /\ last_status' = set_last_status(last_status, q_out')
  /\ UNCHANGED <<impl, handle, ret, cmds, obs, scancel_exit, job_done, waitVars, normVars,
                 q_in, path_now>>

\* a tool is installed or removed (or PATH edited) while the query runs
path_changes ==
  /\ s_pc \in CheckPoints \cup RunPoints
  /\ \E tool \in StatusTools :
       path_now' = IF tool \in path_now THEN path_now \ {tool} ELSE path_now \cup {tool}
  /\ UNCHANGED <<handleVars, waitVars, normVars, queryVars, s_pc>>

NextRace ==
  \/ status_begin
  \/ status_check
  \/ status_run
  \/ path_changes

SpecRace == InitCalls /\ [][NextRace]_vars

\* ------------------------------------------------------------------------
\* Properties

StatusOps == {"status", "is_running", "is_finished"}

\* the normaliser as the specification words it: first whitespace-delimited
\* word, cut at the first '+', cut at the first '(', trailing '*' stripped
claimed_normal(t) ==
  LET w == SplitWS(t) IN
  IF w = <<>> THEN <<>> ELSE RStripSet(Before(Before(w[1], {"+"}), {"("}), {"*"})

\* the states of the rows a source returns: the Table Parser's rows for the
\* one requested field, those without any state left out
claimed_states(out) ==
  LET rows == _table(out, 1, "|")
      states == [i \in 1..Len(rows) |-> claimed_normal(rows[i][1])] IN
  SelectSeq(states, LAMBDA t : t # <<>>)

claimed_status(o) ==
  IF o.a_sq /\ claimed_states(o.sq_out) # <<>> THEN claimed_states(o.sq_out)[1]
  ELSE IF o.a_sa /\ claimed_states(o.sa_out) # <<>> THEN claimed_states(o.sa_out)[1]
  ELSE UNKNOWN

ran(tool) == \E i \in 1..Len(cmds) : cmds[i].tool = tool

\* C1: with at least one of squeue/sacct available, Job.status returns the
\* normalised state of the first source, squeue before sacct, that is
\* available and returns a row for the id, UNKNOWN if none does; sacct is
\* queried only after squeue was unavailable or returned no row.
C1_FirstSourceWins ==
  (ret.op = "status" /\ (obs.a_sq \/ obs.a_sa)) =>
    /\ ret.kind = "return"
    /\ ret.value = claimed_status(obs)
    /\ ran("sacct") => (~obs.a_sq \/ claimed_states(obs.sq_out) = <<>>)

\* C2: when squeue and sacct are both unavailable Job.status raises
\* SlurmUnavailableError; it returns neither UNKNOWN nor any other state.
C2_BothUnavailableRaises ==
  (ret.op \in StatusOps /\ ~obs.a_sq /\ ~obs.a_sa) =>
    /\ ret.kind = "raise"
    /\ ret.value = <<"SlurmUnavailableError">>
    /\ cmds = <<>>

C2_Witness ==
  ret.op = "status" /\ ~obs.a_sq /\ ~obs.a_sa /\ ret.kind = "raise"

\* C3 as stated: every value a status query returns (status, is_running,
\* is_finished, wait) is a terminal state, a non-terminal state or UNKNOWN,
\* whatever the tools print.
C3_ValueInEnumeration ==
  (ret.op \in StatusOps \cup {"wait"} /\ ret.kind = "return") =>
    ret.value \in TERMINAL \cup RUNNINGISH \cup {UNKNOWN}

\* C3 as amended: every value a status query returns is a non-empty string
\* without whitespace, '+' or '(' - UNKNOWN, or the state a tool printed cut
\* down to its first word - and it is cached as such; it lies in the
\* enumeration only when the tool printed one of its members.
C3_ValueIsToken ==
  (ret.op \in StatusOps \cup {"wait"} /\ ret.kind = "return") =>
    /\ ret.value # <<>>
    /\ ret.value # None
    /\ ~HasAny(ret.value, {SP, NL, "+", "("})
    /\ last_status = ret.value

C3_Witness ==
  ret.op = "status" /\ ret.kind = "return" /\ ret.value = <<"OUT_OF_MEMORY">>

\* C4: the terminal and the non-terminal set are disjoint; is_finished() is
\* true iff the state it resolved is terminal, is_running() iff it is
\* non-terminal, both are false for UNKNOWN, and no resolved state makes both
\* true.
C4_FinishedRunningExclusive ==
  /\ TERMINAL \cap RUNNINGISH = {}
  /\ UNKNOWN \notin TERMINAL \cup RUNNINGISH
  /\ (ret.op = "is_finished" /\ ret.kind = "return") =>
       /\ ret.flag <=> ret.value \in TERMINAL
       /\ ret.flag => ~in_RUNNINGISH(ret.value)
       /\ ret.value = UNKNOWN => ~ret.flag
  /\ (ret.op = "is_running" /\ ret.kind = "return") =>
       /\ ret.flag <=> ret.value \in RUNNINGISH
       /\ ret.flag => ~in_TERMINAL(ret.value)
       /\ ret.value = UNKNOWN => ~ret.flag

C4_Witness ==
  ret.op = "is_finished" /\ ret.kind = "return" /\ ret.flag /\ ret.value = <<"FAILED">>

\* C5: when the first status query of wait() yields a terminal state, wait
\* returns that state after exactly this one query and without sleeping,
\* whatever poll_interval and timeout are (timeout 0 and None included).
C5_TerminalReturnsAtOnce ==
  (ret.op = "wait" /\ w_queries = 1 /\ w_s \in TERMINAL) =>
    /\ w_pc = "idle"
    /\ ret.kind = "return"
    /\ ret.value = w_s
    /\ w_sleeps = 0
    /\ w_elapsed <= MaxQueryTime

C5_Witness ==
  /\ ret.op = "wait" /\ w_pc = "idle" /\ w_queries = 1 /\ w_timeout = 0
  /\ ret.kind = "return" /\ ret.value = <<"FAILED">>

\* C6: when the timeout elapses before a terminal state is seen, wait()
\* returns the last observed, non-terminal state as a normal result and
\* runs no cancellation; it goes on polling only while the timeout had not
\* elapsed at its last check, so with a timeout shorter than one poll
\* interval it sleeps at most once.
C6_TimeoutReturnsLastState ==
  /\ (ret.op = "wait" /\ w_pc = "idle" /\ ret.kind = "return" /\ ret.value \notin TERMINAL) =>
       /\ w_timeout # NoTimeout
       /\ w_elapsed > w_timeout
       /\ ret.value = w_s
       /\ ret.value = last_status
  /\ (ret.op = "wait" /\ w_pc = "polling" /\ w_queries >= 1 /\ w_timeout # NoTimeout) =>
       w_elapsed - w_poll <= w_timeout
  /\ (ret.op = "wait" /\ w_timeout # NoTimeout /\ w_timeout < w_poll) => w_sleeps <= 1
  /\ ret.op = "wait" => ~ran("scancel")

C6_Witness ==
  /\ ret.op = "wait" /\ w_pc = "idle" /\ ret.kind = "return"
  /\ w_timeout = 1 /\ w_poll = 2 /\ w_sleeps = 1 /\ ret.value = <<"RUNNING">>

\* C7: after every status query that returns (status, is_running,
\* is_finished, each turn of wait) last_status is the value just returned,
\* so wait returns last_status; an operation that raises leaves last_status
\* as it was.
C7_LastStatusCache ==
  /\ [](/\ (ret.op \in StatusOps \cup {"wait"} /\ ret.kind = "return") => last_status = ret.value
        /\ (ret.op = "wait" /\ w_s # None) => last_status = w_s)
  /\ [][ret'.kind = "raise" => last_status' = last_status]_vars

C7_Witness ==
  ret.op = "is_running" /\ ret.kind = "return" /\ last_status = UNKNOWN

\* C8: no handle operation changes the handle's id, name, user, partition or
\* log paths, and every scheduler command the handle runs carries its id.
C8_IdentityFixed ==
  /\ [][handle' = handle]_vars
  /\ [](\A i \in 1..Len(cmds) : cmds[i].id = handle.id)

C8_Witness ==
  ret.op = "cancel" /\ ret.kind = "return" /\ cmds = <<Cmd("scancel", handle.id)>>

\* C9: normalize_state is total and idempotent: for every string, the empty
\* one and those of whitespace only included, it returns a string,
\* normalising its result gives the same result, and a canonical token comes
\* back unchanged.
C9_NormalizeTotalIdempotent ==
  /\ n_once # NotYet => n_once.exc = "none"
  /\ n_twice # NotYet => n_twice = n_once
  /\ (n_once # NotYet /\ n_in \in TERMINAL \cup RUNNINGISH) => n_once = Ok(n_in)

\* C10: a raw token resolves to the same state whether squeue or sacct
\* printed it, and that state holds no whitespace, '+' or '(' and does not
\* end in '*'.
C10_SameNormalizerBothSources ==
  (~HasAny(n_in, {NL}) /\ r_live # NoResult /\ r_hist # NoResult) =>
    /\ r_live.kind = r_hist.kind
    /\ r_live.value = r_hist.value
    /\ r_live.kind = "return" =>
         /\ ~HasAny(r_live.value, {SP, NL, "+", "("})
         /\ r_live.value[Len(r_live.value)] # "*"

\* ------------------------------------------------------------------------
\* Properties of the module-level calls

AdapterReturned == q_in.op \in Adapters /\ q_out.kind = "return"

\* the tokens a row binds to the keys, in key order
row_tokens(keys, row) == [i \in 1..Len(keys) |-> row[keys[i]]]

\* a line with its runs of whitespace squeezed to one blank each and the
\* leading run removed
squeezed(line) ==
  SelectSeq(JoinWith([i \in 1..Len(line) |->
                        IF line[i] \notin Whitespace THEN <<line[i]>>
                        ELSE IF i > 1 /\ line[i - 1] \notin Whitespace THEN <<SP>>
                        ELSE <<>>], "skip"),
            LAMBDA x : x # "skip")

\* the number of tokens the claim gives a line: one more than the separators
\* in it, or its runs of non-whitespace when there is no separator
claimed_count(line, sep) ==
  IF sep = NoSep
  THEN Cardinality({i \in 1..Len(line) :
                      line[i] \notin Whitespace /\ (i = 1 \/ line[i - 1] \in Whitespace)})
  ELSE 1 + Cardinality({i \in 1..Len(line) : line[i] = sep})

\* toks are the tokens of the line: none holds a separator and, written with
\* a separator after each, they give back the line
claimed_split(toks, line, sep) ==
  IF sep = NoSep
  THEN /\ \A i \in 1..Len(toks) : toks[i] # <<>> /\ ~HasAny(toks[i], Whitespace)
       /\ JoinWith(toks, SP) =
            IF line # <<>> /\ line[Len(line)] \notin Whitespace
            THEN squeezed(line) \o <<SP>> ELSE squeezed(line)
  ELSE /\ \A i \in 1..Len(toks) : ~HasAny(toks[i], {sep})
       /\ JoinWith(toks, sep) = line \o <<sep>>

\* the rows are the accepted lines, in order, each bound token by token
claimed_table(rows, keys, lines, sep, kept) ==
  /\ Len(rows) = Len(kept)
  /\ \A j \in 1..Len(kept) :
       /\ DOMAIN rows[j] = {keys[i] : i \in 1..Len(keys)}
       /\ claimed_split(row_tokens(keys, rows[j]), lines[kept[j]], sep)

\* C11: _table returns one mapping per line whose token count equals the
\* number of fields, in line order, the i-th token bound to the i-th field;
\* every other line is dropped and nothing is added or reordered
C11_TableRowsAreMatchingLines ==
  AdapterReturned =>
    claimed_table(q_out.value, q_in.arg, SplitLines(q_in.out), adapter_sep(q_in.op),
                  Ascending({i \in 1..Len(SplitLines(q_in.out)) :
                               claimed_count(SplitLines(q_in.out)[i], adapter_sep(q_in.op))
                                 = Len(q_in.arg)}))

\* an adapter dropped the first of two lines and kept the second, binding
\* three tokens to three fields
C11_Witness ==
  /\ AdapterReturned
  /\ q_in.op = "squeue"
  /\ q_in.arg = <<"id", "name", "state">>
  /\ q_in.out = <<"a", "|", "b", NL, "a", "|", "|", "c", NL>>
  /\ q_out.value = <<[id |-> <<"a">>, name |-> <<>>, state |-> <<"c">>]>>

\* the fixture parsed for the fields id, name, state by an adapter whose
\* separator is "|"
FixtureParsed ==
  /\ AdapterReturned
  /\ q_in.op \in {"squeue", "sacct"}
  /\ q_in.arg = <<"id", "name", "state">>
  /\ q_in.out = FixtureText

FixtureRow1 == [id |-> <<"1">>, name |-> <<"job", "1">>, state |-> <<"RUNNING">>]

\* C12 as claimed: the fixture yields two rows, the second one made of the
\* four-token line with "PENDING|extra" as its state
C12_FixtureTwoRows ==
  FixtureParsed =>
    q_out.value = <<FixtureRow1,
                    [id |-> <<"3">>, name |-> <<"job", "3">>,
                     state |-> <<"PENDING", "|", "extra">>]>>

\* C12 amended: the fixture yields exactly one row, that of its first line;
\* the two-token and the four-token line are both dropped
C12_FixtureOneRow == FixtureParsed => q_out.value = <<FixtureRow1>>

C12_Witness == FixtureParsed /\ Len(q_out.value) = 1

NodeCountsReturned == q_in.op = "node_state_counts" /\ q_out.kind = "return"

\* the sum of num[i] over the indices i in idx
sum_over(idx, num) ==
  SumSeq([j \in 1..Cardinality(idx) |-> num[Ascending(idx)[j]]])

\* the sum of the values of a mapping
sum_values(map) ==
  LET part[keys \in SUBSET DOMAIN map] ==
        IF keys = {} THEN 0
        ELSE map[CHOOSE k \in keys : TRUE] + part[keys \ {CHOOSE k \in keys : TRUE}]
  IN part[DOMAIN map]

\* the accepted rows: the lines of two fields whose count is a number
accepted_nodes(lines) ==
  {i \in 1..Len(lines) :
     claimed_count(lines[i], "|") = 2 /\ int_of(After(lines[i], {"|"})).exc = "none"}

\* the result sums, token by token, the counts of the accepted rows
claimed_node_counts(result, lines, toks, nums, rows) ==
  /\ DOMAIN result = {toks[i] : i \in rows}
  /\ \A k \in DOMAIN result : result[k] = sum_over({i \in rows : toks[i] = k}, nums)
  /\ sum_values(result) = sum_over(rows, nums)

\* C18: node_state_counts sums, for every canonical token, the node counts of
\* the accepted rows whose raw state normalises to it, and the result's
\* values add up to the counts of all accepted rows
C18_NodeCountsSumPerToken ==
  NodeCountsReturned =>
    claimed_node_counts(
      q_out.value, SplitLines(q_in.out),
      [i \in 1..Len(SplitLines(q_in.out)) |->
         claimed_normal(Before(SplitLines(q_in.out)[i], {"|"}))],
      [i \in 1..Len(SplitLines(q_in.out)) |->
         int_of(After(SplitLines(q_in.out)[i], {"|"})).val],
      accepted_nodes(SplitLines(q_in.out)))

\* "idle|4" and "idle*|2" counted together as six idle nodes
C18_Witness ==
  /\ NodeCountsReturned
  /\ q_in.out = <<"idle", "|", "4", NL, "idle", "*", "|", "2", NL>>
  /\ q_out.value = (<<"idle">> :> 6)

CompletionsReturned == q_in.op = "recent_completions" /\ q_out.kind = "return"

\* the day a stamp names, counted from 0001-01-01 (a Monday) as day 1
stamp_day(dt) == ymd2ord(dt.year, dt.month, dt.day)

\* the period a parsed line falls in, numbered chronologically: its day, or
\* its week from Monday to Sunday; 0 for a line that is no completion time
period_of(span, parsed) ==
  IF parsed.exc # "none" THEN 0
  ELSE IF span = "week" THEN ((stamp_day(parsed.val) - 1) \div 7) + 1
  ELSE stamp_day(parsed.val)

\* bucket j of the result is period recent[j]: it counts the lines of that
\* period and carries the key of one of them
claimed_bucket(span, bucket, period, parsed) ==
  /\ bucket[2] = Cardinality({i \in 1..Len(parsed) : period_of(span, parsed[i]) = period})
  /\ bucket[2] >= 1
  /\ \E i \in 1..Len(parsed) :
       /\ period_of(span, parsed[i]) = period
       /\ bucket[1] = bucket_key(span, parsed[i].val)

\* the result is the periods in recent, oldest first
claimed_buckets(span, result, recent, parsed) ==
  /\ Len(result) = Cardinality(recent)
  /\ \A j \in 1..Len(result) : claimed_bucket(span, result[j], Ascending(recent)[j], parsed)

\* the periods with a completion, cut down to the count latest ones
claimed_recent(count, periods) ==
  {b \in periods : b # 0 /\ Cardinality({c \in periods : c > b}) < count}

claimed_histogram(span, count, result, parsed) ==
  /\ Len(result) <= count
  /\ claimed_buckets(span, result,
                     claimed_recent(count, {period_of(span, parsed[i]) : i \in 1..Len(parsed)}),
                     parsed)

\* C17: recent_completions(span, count) returns one bucket per day or ISO
\* week that has a completion, each with the number of completions in it,
\* oldest first, cut down to the count most recent buckets, so never more
\* than count entries
C17_HistogramTruncatedToCount ==
  CompletionsReturned =>
    claimed_histogram(q_in.arg[1], q_in.arg[2], q_out.value,
                      [i \in 1..Len(SplitLines(q_in.out)) |->
                         strptime(Before(Strip(SplitLines(q_in.out)[i]), {"."}))])

QueryOps ==
  Adapters \cup {"list_jobs", "node_state_counts", "recent_completions", "_partition_caps",
                 "partition_utilization", "fairshare_scores"}

\* a query operation that ran its command
Queried == q_in.op \in QueryOps /\ q_out.cmds # <<>>

\* C13: a malformed row is never an error: once the tool has printed its
\* output, a query operation returns whatever the rows look like; it raises
\* only when a further tool it needs is not installed.
C13_MalformedRowsNeverRaise ==
  Queried /\ q_out.kind = "raise" => q_out.value = <<"SlurmUnavailableError">>

CapsReturned == q_in.op = "_partition_caps" /\ q_out.kind = "return"

\* the line is partition|CPUs|GRES|nodes with nothing left out
full_row(line) == Cardinality({i \in 1..Len(line) : line[i] = "|"}) = 3

\* the text is made of digits, at least one
numeral(text) == text # <<>> /\ \A i \in 1..Len(text) : text[i] \in Digits

\* the CPU field is numbers separated by "/", the total last
cpu_field(text) ==
  /\ \E i \in 1..Len(text) : text[i] = "/"
  /\ \A i \in 1..Len(text) : text[i] \in Digits \cup {"/"}
  /\ text[Len(text)] \in Digits

\* the total of the CPU field: its digits after the last "/"
claimed_cpus(text) ==
  Decimal(SubSeq(text, 1 + CHOOSE i \in 1..Len(text) :
                             text[i] = "/" /\ \A j \in (i + 1)..Len(text) : text[j] # "/",
                 Len(text)))

\* the GRES field is "(null)" or "gpu:<n>"
plain_gres(text) ==
  \/ text = <<"(", "null", ")">>
  \/ Len(text) >= 3 /\ text[1] = "gpu" /\ text[2] = ":" /\ numeral(SubSeq(text, 3, Len(text)))

claimed_gpus_per_node(text) ==
  IF text = <<"(", "null", ")">> THEN 0 ELSE Decimal(SubSeq(text, 3, Len(text)))

\* the entry of the partition is what the claim computes from the fields
claimed_caps(entry, f) ==
  /\ entry.cpus = claimed_cpus(f[2])
  /\ entry.gpus = claimed_gpus_per_node(f[3]) * Decimal(f[4])

\* the name of the partition a line is about
part_of(line) == RStripSet(Before(line, {"|"}), {"*"})

\* line i is the only one about its partition, and is well formed
capacity_row(lines, i) ==
  /\ \A j \in 1..Len(lines) : part_of(lines[j]) = part_of(lines[i]) => j = i
  /\ full_row(lines[i])
  /\ cpu_field(SplitOn(lines[i], "|")[2])
  /\ plain_gres(SplitOn(lines[i], "|")[3])
  /\ numeral(SplitOn(lines[i], "|")[4])

claimed_capacity(result, lines) ==
  \A i \in 1..Len(lines) :
    capacity_row(lines, i) =>
      /\ part_of(lines[i]) \in DOMAIN result
      /\ claimed_caps(result[part_of(lines[i])], SplitOn(lines[i], "|"))

\* C19: for a capacity row of a partition, the partition's CPU capacity is the
\* total of the "used/total" CPU field and its GPU capacity is the per-node GPU
\* count of the GRES field times the node count.
C19_CapacityFromRow == CapsReturned => claimed_capacity(q_out.value, SplitLines(q_in.out))

\* cpus "32/64", gres "gpu:4", nodes 4 gives {cpus: 64, gpus: 16}
C19_Witness ==
  /\ CapsReturned
  /\ q_in.out = CapLine(<<"gpu">>, 32, 64, <<"gpu", ":", "4">>, 4) \o <<NL>>
  /\ q_out.value = (<<"gpu">> :> [cpus |-> 64, gpus |-> 16])

BothToolsPresent == q_in.op = "partition_utilization" /\ q_in.avail = {"sinfo", "squeue"}

\* the capacity map the call computed from the output of sinfo
capacity == caps_of(cap_rows(SplitLines(q_in.out)))

\* what the running jobs of partition p use of a resource
in_use(jobs, p, resource) ==
  SumSeq([i \in 1..Len(jobs) |->
            IF jobs[i].state = "RUNNING" /\ jobs[i].part = p THEN jobs[i][resource] ELSE 0])

\* the number r is 100 * use / total, or 0 when total is 0
is_ratio(r, use, total) ==
  IF total = 0 THEN r[1] = 0 ELSE r[1] * total = 100 * use * r[2]

\* the number r is at least 100 * use / total, or at least 0 when total is 0
covers_ratio(r, use, total) ==
  IF total = 0 THEN r[1] >= 0 ELSE r[1] * total >= 100 * use * r[2]

\* r is the greater of the two percentages
claimed_percentage(r, cap, cpus, gpus) ==
  /\ r[2] > 0
  /\ is_ratio(r, cpus, cap.cpus) \/ is_ratio(r, gpus, cap.gpus)
  /\ covers_ratio(r, cpus, cap.cpus)
  /\ covers_ratio(r, gpus, cap.gpus)

claimed_utilization(result, caps, jobs) ==
  /\ DOMAIN result = DOMAIN caps
  /\ \A p \in DOMAIN caps :
       claimed_percentage(result[p], caps[p], in_use(jobs, p, "cpus"), in_use(jobs, p, "gpus"))

\* C15: partition_utilization reports max(CPU in use / CPU total, GPU in use
\* / GPU total) x 100 for each partition, the sums running over the RUNNING
\* jobs only; a ratio with zero capacity counts as 0 and nothing is divided
\* by zero.
C15_UtilizationIsMaxRatio ==
  BothToolsPresent =>
    /\ q_out.kind = "return"
    /\ claimed_utilization(q_out.value, capacity, q_in.arg)

\* capacity {cpus: 64, gpus: 8} and running usage {cpus: 32, gpus: 8} give
\* 100.0, next to a partition without capacity that gives 0.0, a pending job
\* not being counted
C15_Witness ==
  /\ BothToolsPresent
  /\ capacity = (<<"gpu">> :> [cpus |-> 64, gpus |-> 8]) @@ (<<"idle">> :> [cpus |-> 0, gpus |-> 0])
  /\ \E i \in 1..Len(q_in.arg) : q_in.arg[i].state = "PENDING"
  /\ in_use(q_in.arg, <<"gpu">>, "cpus") = 32 /\ in_use(q_in.arg, <<"gpu">>, "gpus") = 8
  /\ q_out.value = (<<"gpu">> :> <<100, 1>>) @@ (<<"idle">> :> <<0, 1>>)

FairshareCalled == q_in.op = "fairshare_scores"

\* the source the claim says is read, "none" when there is none
claimed_source ==
  IF "sprio" \in q_in.avail THEN "sprio"
  ELSE IF "sshare" \in q_in.avail THEN "sshare" ELSE "none"

\* the output of that source
source_lines == SplitLines(IF claimed_source = "sprio" THEN q_in.out ELSE q_in.out2)

\* the line reports a user and a score written digits "." digits
report(line) ==
  /\ Len(SplitWS(line)) >= 2
  /\ \E i \in 1..Len(SplitWS(line)[2]) :
       /\ SplitWS(line)[2][i] = "."
       /\ numeral(SubSeq(SplitWS(line)[2], 1, i - 1))
       /\ numeral(SubSeq(SplitWS(line)[2], i + 1, Len(SplitWS(line)[2])))

\* the fraction r is the number the text writes
is_score(r, text) ==
  \E i \in 1..Len(text) :
    /\ text[i] = "."
    /\ r[1] * (10 ^ (Len(text) - i))
         = r[2] * (Decimal(SubSeq(text, 1, i - 1)) * (10 ^ (Len(text) - i))
                     + Decimal(SubSeq(text, i + 1, Len(text))))

\* every user reported on one line only has the score of that line
claimed_scores(result, lines) ==
  \A i \in 1..Len(lines) :
    (report(lines[i]) /\ \A j \in 1..Len(lines) :
                           Len(SplitWS(lines[j])) >= 1 /\ SplitWS(lines[j])[1] = SplitWS(lines[i])[1]
                             => j = i)
      => /\ SplitWS(lines[i])[1] \in DOMAIN result
         /\ is_score(result[SplitWS(lines[i])[1]], SplitWS(lines[i])[2])

\* C16: fairshare_scores reads sprio when it is installed, sshare only when
\* sprio is not, and returns an empty mapping without raising when neither
\* is; the mapping gives each reported user the score of the source read.
C16_FairshareSourceOrder ==
  FairshareCalled =>
    /\ q_out.kind = "return"
    /\ q_out.cmds = IF claimed_source = "none" THEN <<>> ELSE <<Cmd(claimed_source, NoJob)>>
    /\ IF claimed_source = "none" THEN q_out.value = <<>>
       ELSE claimed_scores(q_out.value, source_lines)

\* sprio is missing, sshare reports alice and bob
C16_Witness ==
  /\ FairshareCalled
  /\ q_in.avail = {"sshare"}
  /\ q_out.cmds = <<Cmd("sshare", NoJob)>>
  /\ q_out.value = (<<"alice">> :> <<1, 2>>) @@ (<<"bob">> :> <<1, 10>>)

\* submit() got as far as running the submission command
SubmitRan == q_in.op = "submit" /\ q_out.cmds # <<>>

\* stdout is the one line "Submitted batch job <id>", blanks around it aside
single_expected_line(out) ==
  /\ announces(Strip(out))
  /\ numeral(SubSeq(Strip(out), 7, Len(Strip(out))))

\* the handle carries the id of that line and the paths with the id filled in
claimed_handle(job, out, templates) ==
  /\ job.id = Decimal(SubSeq(Strip(out), 7, Len(Strip(out))))
  /\ job.stdout_path = replace_id(templates[1], job.id)
  /\ job.stderr_path = replace_id(templates[2], job.id)
  /\ Placeholder \notin {job.stdout_path[i] : i \in 1..Len(job.stdout_path)}

\* C20: submit returns a handle only when stdout is the single line
\* "Submitted batch job <id>" with an integer id, the handle then carrying
\* that id and the log paths with the placeholder replaced by it; any other
\* stdout raises an error carrying stdout and stderr.
C20_HandleOnlyForSingleLine ==
  SubmitRan =>
    IF single_expected_line(q_in.out)
    THEN q_out.kind = "return" /\ claimed_handle(q_out.value, q_in.out, q_in.arg)
    ELSE q_out.kind = "raise" /\ q_out.value = <<"RuntimeError", Strip(q_in.out), Strip(q_in.out2)>>

\* the operations the claim names
GatedOps ==
  Adapters \cup {"submit", "cancel", "info", "node_state_counts", "recent_completions"}

\* the tool behind an operation, and behind a command: run.sh calls sbatch
backing_tool(name) ==
  IF name \in {"submit", "run.sh"} THEN "sbatch"
  ELSE IF name = "cancel" THEN "scancel"
  ELSE IF name = "info" THEN "scontrol"
  ELSE IF name = "node_state_counts" THEN "sinfo"
  ELSE IF name = "recent_completions" THEN "sacct"
  ELSE name

\* C14: each adapter, submit, cancel, info, node_state_counts and
\* recent_completions raises SlurmUnavailableError when its backing tool is
\* not installed, and no operation runs a command of a tool that is not
\* installed.
C14_AvailabilityGatesEveryOperation ==
  /\ q_in.op \in GatedOps /\ backing_tool(q_in.op) \notin q_in.avail
       => q_out = Raises("SlurmUnavailableError", <<>>)
  /\ \A i \in 1..Len(q_out.cmds) : backing_tool(q_out.cmds[i].tool) \in q_in.avail

\* info() on a machine without scontrol
C14_Witness ==
  /\ q_in.op = "info"
  /\ q_in.avail = {}
  /\ q_out = Raises("SlurmUnavailableError", <<>>)

\* ------------------------------------------------------------------------
\* Properties of cancel, list_jobs, wait, status and the capacity map

\* cancel() got past its availability check
CancelRan == ret.op = "cancel" /\ ret.value # <<"SlurmUnavailableError">>

\* C21: Job.cancel runs exactly one command, scancel with the handle's job
\* id, and no status query; it returns normally whatever exit status scancel
\* ends with; and it leaves every field of the handle, last_status included,
\* as it was.
C21_CancelOnlyIssuesCommand ==
  /\ [](CancelRan =>
          /\ cmds = <<Cmd("scancel", handle.id)>>
          /\ scancel_exit \in {<<rc>> : rc \in ExitCodes}
          /\ ret.kind = "return"
          /\ ret.value = None)
  /\ [][ret'.op = "cancel" =>
          /\ handle' = handle
          /\ last_status' = last_status
          /\ impl' = impl]_vars

\* scancel failed, cancel() returned, and the cached state is still RUNNING
C21_Witness ==
  /\ CancelRan
  /\ ret.kind = "return"
  /\ scancel_exit = <<1>>
  /\ last_status = <<"RUNNING">>

\* a status query after a successful scancel that reports RUNNING
C21_LaterStillRunning ==
  /\ scancel_exit = <<0>>
  /\ ret.op = "status"
  /\ ret.kind = "return"
  /\ ret.value = <<"RUNNING">>

ListJobsCalled == q_in.op = "list_jobs"

\* the one source a call may read: the live queue when squeue is installed,
\* the accounting history otherwise
claimed_tool == IF "squeue" \in q_in.avail THEN "squeue" ELSE "sacct"

claimed_text == IF "squeue" \in q_in.avail THEN q_in.out ELSE q_in.out2

\* a line of seven "|"-separated fields whose first field is an integer
is_listed(line) ==
  /\ Cardinality({i \in 1..Len(line) : line[i] = "|"}) = 6
  /\ int_of(SplitOn(line, "|")[1]).exc = "none"

\* the handle the claim describes for one such line
claimed_job(job, f) ==
  /\ job.id = int_of(f[1]).val
  /\ job.last_status = claimed_normal(f[5])
  /\ job.stdout_path = None
  /\ job.stderr_path = None

\* one handle per listed line of the source, in the order of the lines
claimed_listing(jobs, lines) ==
  /\ Len(jobs) = Len(lines)
  /\ \A i \in 1..Len(lines) : claimed_job(jobs[i], SplitOn(lines[i], "|"))

\* C22: list_jobs raises SlurmUnavailableError, running nothing, when neither
\* squeue nor sacct is installed; otherwise it runs exactly one command,
\* squeue when squeue is installed and sacct when it is not, and what it
\* returns is built from that source alone: one handle per row whose id is
\* an integer, in the order of the rows, with the id, the normalised state
\* of the row and unknown log paths.
C22_ListJobsOneSource ==
  ListJobsCalled =>
    /\ q_in.avail = {} => q_out = Raises("SlurmUnavailableError", <<>>)
    /\ q_in.avail # {} => q_out.cmds = <<Cmd(claimed_tool, NoJob)>>
    /\ q_out.kind = "return" =>
         claimed_listing(q_out.value, SelectSeq(SplitLines(claimed_text), is_listed))

\* both tools installed, sacct has a row, squeue prints a row with a
\* non-integer id before the row of job 7: only job 7 is listed
C22_Witness ==
  /\ ListJobsCalled
  /\ q_in.avail = {"squeue", "sacct"}
  /\ q_in.out2 # <<>>
  /\ Len(SplitLines(q_in.out)) = 2
  /\ q_out.kind = "return"
  /\ Len(q_out.value) = 1
  /\ q_out.value[1].id = 7
  /\ q_out.value[1].last_status = <<"RUNNING">>

\* inside wait(timeout=None)
WaitingForever == ret.op = "wait" /\ w_pc = "polling" /\ w_timeout = NoTimeout

\* wait(timeout=None) has returned
WaitReturned ==
  ret.op = "wait" /\ w_pc = "idle" /\ w_timeout = NoTimeout /\ ret.kind = "return"

\* C23: wait(timeout=None) returns only a terminal state, the one its last
\* status query observed; a turn of its loop whose query observes a terminal
\* state returns it, and a turn whose query yields any other state, UNKNOWN
\* included, sleeps and polls again; once the job is reported terminal for
\* good, a wait that is polling eventually returns, given that every query
\* and every sleep completes.
C23_WaitEndsIffTerminalSeen ==
  /\ [](WaitReturned => (ret.value \in TERMINAL /\ ret.value = w_s))
  /\ [](WaitingForever => (w_s \notin TERMINAL /\ w_sleeps = w_queries))
  /\ [][(WaitingForever /\ w_queries' # w_queries) =>
          IF w_s' \in TERMINAL
          THEN w_pc' = "idle" /\ ret'.kind = "return" /\ ret'.value = w_s'
          ELSE ret'.kind = "raise" \/ (w_pc' = "polling" /\ w_sleeps' = w_sleeps + 1)]_vars
  /\ ((WaitingForever /\ job_done) ~> (WaitReturned /\ ret.value \in TERMINAL))

\* the job ended while wait(timeout=None) slept after a non-terminal state,
\* and wait returned FAILED from a later query
C23_Witness ==
  /\ WaitReturned
  /\ job_done
  /\ w_queries >= 2
  /\ w_sleeps >= 1
  /\ ret.value = <<"FAILED">>

\* wait(timeout=None) still polling after two queries that gave UNKNOWN
C23_StillPollingUnknown ==
  /\ WaitingForever
  /\ w_queries >= 2
  /\ w_s = UNKNOWN
  /\ last_status = UNKNOWN

\* a stepwise status query has ended by returning "UNKNOWN"
ReturnedUnknown ==
  q_in.op = "status" /\ s_pc = "done" /\ q_out.kind = "return" /\ q_out.value = UNKNOWN

\* C24: whenever Job.status returns "UNKNOWN" it has executed the query
\* command of at least one source, however tool availability changes between
\* its availability checks.
C24_UnknownOnlyAfterQuery == ReturnedUnknown => q_out.cmds # <<>>

\* the capacity of partition p summed over all the rows that name it
claimed_total(rows, p) ==
  [cpus |-> SumSeq([i \in 1..Len(rows) |-> IF rows[i].part = p THEN rows[i].cpus ELSE 0]),
   gpus |-> SumSeq([i \in 1..Len(rows) |-> IF rows[i].part = p THEN rows[i].gpus ELSE 0])]

\* one entry per partition named by a row, each the partition's total
claimed_totals(result, rows) ==
  /\ DOMAIN result = {rows[i].part : i \in 1..Len(rows)}
  /\ \A p \in DOMAIN result : result[p] = claimed_total(rows, p)

\* C25: the capacity map has one entry per partition, and the entry's CPU
\* and GPU capacities are the sums over all the rows sinfo prints for that
\* partition; partition_utilization reports a value for exactly the
\* partitions of the capacity map.
C25_CapacityIsPartitionTotal ==
  /\ CapsReturned => claimed_totals(q_out.value, cap_rows(SplitLines(q_in.out)))
  /\ (BothToolsPresent /\ q_out.kind = "return") => DOMAIN q_out.value = DOMAIN capacity

\* the part of C25 about partition_utilization alone
C25_UtilizationCoversCapacity ==
  (BothToolsPresent /\ q_out.kind = "return") => DOMAIN q_out.value = DOMAIN capacity
====
